---- MODULE Spec2Model ----
(***************************************************************************)
(* State-machine model of the kernfs dentry tree of                        *)
(* pkg/sentry/.../extensions.go (package kernfs part): Filesystem          *)
(* (mu, droppedDentriesMu, droppedDentries), Dentry (DentryRefs, parent,   *)
(* name, dirMu, children, inode, flags) and the operations deferDecRef,    *)
(* processDeferredDecRefs, Dentry.Init, Dentry.DecRef, insertChild and     *)
(* insertChildLocked, run by concurrent threads; and of the extension      *)
(* registry of the package netfilter part of the same file: matchMakers,   *)
(* targetMakers, registerMatchMaker, registerTargetMaker, targetRevision,  *)
(* marshalEntryMatch and the (un)marshal dispatchers.                      *)
(***************************************************************************)
EXTENDS Integers, Sequences, FiniteSets, TLC

\* ------------------------------------------------------------------ bounds

\* Largest number of references callers take with IncRef / TryIncRef during a
\* run, over all entries.
MaxIncs == 1

\* Largest number of NextIno calls in a run.
MaxInoCalls == 4

\* Width in bits of the inode-number counter in the model. The program's
\* counter is a uint64; the model keeps the wraparound at a width whose
\* values the model checker can represent.
InoBits == 4

\* Largest length of the data passed to marshalEntryMatch.
MaxDataLen == 8

\* Largest number of target makers registered in a run.
MaxTargets == 3

\* Largest revision of a target maker.
MaxRevision == 2

\* ------------------------------------------------------------- the universe

NULL == "nil"

Threads == {"t1", "t2"}

\* The root entry exists from the start; the others are allocated by lookups.
Root == "root"
Fresh == <<"e1", "e2">>
Dentries == {Root} \cup {Fresh[k] : k \in DOMAIN Fresh}

Names == {"x", "y"}

\* The inodes: the root directory's, and the ones Lookup synthesizes on demand
\* (directories, so that a looked-up entry can itself be looked up in).
RootInode == "ino0"
LookupInodes == <<"ino1", "ino2">>
Inodes == {RootInode} \cup {LookupInodes[k] : k \in DOMAIN LookupInodes}

\* Dentry.flags bits.
dflagsIsDir == 1
dflagsIsSymlink == 2

\* The match extensions: names of matchers, and makers told apart by impl.
MatchNames == {"tcp", "udp"}
Impls == {1, 2}
MatchMakerValues == [name : MatchNames, impl : Impls]
NoMatchMaker == [name |-> NULL, impl |-> 0]

\* stack.TargetID: Name, NetworkProtocol (IPv4, IPv6), Revision; and the
\* target makers, whose id() is a TargetID.
TargetNames == {"REDIRECT", "SNAT"}
NetworkProtocols == {2048, 34525}
Revisions == 0..MaxRevision
TargetIDs == [Name : TargetNames, NetworkProtocol : NetworkProtocols, Revision : Revisions]
NoID == [Name |-> NULL, NetworkProtocol |-> 0, Revision |-> 0]
TargetMakerValues == [id : TargetIDs, impl : Impls]
NoTargetMaker == [id |-> NoID, impl |-> 0]

\* Results of the netfilter functions: kind is "none" before any call,
\* "running" inside targetRevision's loop, "rev" for targetRevision's pair,
\* "ok" for a normal return (maker: the maker used or stored), "err" for an
\* error value, "panic" for a panic.
NoRet == [kind |-> "none", rev |-> 0, ok |-> FALSE, maker |-> 0]
Ret(k, m) == [kind |-> k, rev |-> 0, ok |-> FALSE, maker |-> m]
RevRet(r, ok) == [kind |-> "rev", rev |-> r, ok |-> ok, maker |-> 0]

\* Names and data bytes passed to marshalEntryMatch ("", "tcp", "udp").
EntryMatchNames == {<<>>, <<116, 99, 112>>, <<117, 100, 112>>}
DataBytes == {1, 255}

VARIABLES
    mu,                 \* Filesystem.mu: [w |-> writer or NULL, r |-> set of readers]
    droppedDentriesMu,  \* Filesystem.droppedDentriesMu: holder or NULL
    droppedDentries,    \* Filesystem.droppedDentries: sequence of entries
    fsOf,               \* Dentry.fs: NULL until the entry is allocated and Init'ed
    refs,               \* Dentry.DentryRefs: the reference count
    flags,              \* Dentry.flags
    parent,             \* Dentry.parent
    name,               \* Dentry.name
    dirMu,              \* Dentry.dirMu: holder or NULL
    children,           \* Dentry.children: [Names -> entry or NULL]
    inode,              \* Dentry.inode
    inodeRefs,          \* reference count of each inode
    invalidated,        \* entries passed to VirtualFilesystem.InvalidateDentry
    pc,                 \* position of each thread
    cur,                \* receiver of the DecRef a thread is running
    decRefParent,       \* local decRefParent of that DecRef
    todo,               \* deferred DecRef calls of processDeferredDecRefs, next first
    loc,                \* locals of a lookup: [ino, child, par, nm]
    owned,              \* references on each entry that callers hold and may drop
    incs,               \* successful increments of each entry's count
    decs,               \* DecRef calls started on each entry
    destroys,           \* runs of each entry's destructor
    nextInoMinusOne,    \* Filesystem.nextInoMinusOne
    inoPc,              \* position of each thread in a NextIno call
    inoRet,             \* the number the thread's atomic add produced
    inoSeen,            \* largest number returned before the thread's call started
    inoDone,            \* numbers returned by the calls that have completed
    inoCalls,           \* NextIno calls started
    inoWrapped,         \* the counter has wrapped around
    inoStart,           \* the value of the counter when the run began
    matchMakers,        \* netfilter.matchMakers: [match name -> maker or NULL]
    targetMakers,       \* netfilter.targetMakers: [TargetID -> maker or NULL]
    nfOp,               \* the netfilter function called last
    nfKey,              \* the key that call was about
    nfRet,              \* what it returned, or that it panicked
    trRest,             \* targetRevision: makers the range loop has yet to visit
    trRev,              \* targetRevision: the local rev
    firstMatch,         \* first maker passed to registerMatchMaker under each name
    firstTarget,        \* first maker passed to registerTargetMaker under each id
    mName,              \* marshalEntryMatch: argument name
    mData,              \* marshalEntryMatch: argument data
    mBuf                \* marshalEntryMatch: the buffer returned

vars == <<mu, droppedDentriesMu, droppedDentries, fsOf, refs, flags, parent, name,
          dirMu, children, inode, inodeRefs, invalidated, pc, cur, decRefParent,
          todo, loc, owned, incs, decs, destroys, nextInoMinusOne, inoPc, inoRet,
          inoSeen, inoDone, inoCalls, inoWrapped, inoStart, matchMakers,
          targetMakers, nfOp, nfKey, nfRet, trRest, trRev, firstMatch, firstTarget,
          mName, mData, mBuf>>

fsVars == <<droppedDentriesMu, droppedDentries>>
treeVars == <<fsOf, refs, flags, parent, name, dirMu, children, inode, inodeRefs,
              invalidated>>
decVars == <<cur, decRefParent, todo>>
ghostVars == <<owned, incs, decs, destroys>>
inoVars == <<nextInoMinusOne, inoPc, inoRet, inoSeen, inoDone, inoCalls, inoWrapped,
             inoStart>>

regVars == <<matchMakers, targetMakers, nfKey, nfRet, trRest, trRev,
             firstMatch, firstTarget>>
marshalVars == <<mName, mData, mBuf>>
nfVars == <<regVars, marshalVars, nfOp>>
kernfsVars == <<mu, fsVars, treeVars, pc, decVars, loc, ghostVars, inoVars>>

NoLoc == [ino |-> NULL, child |-> NULL, par |-> NULL, nm |-> NULL]

\* --------------------------------------------------------------- primitives

\* sync.RWMutex: a writer first takes the writer slot, which keeps new readers
\* out, then waits until the readers that are in have left.
CanRLock == mu.w = NULL
CanLockPending == mu.w = NULL
CanLockEnter == mu.r = {}

\* The file type of an inode (inode.Mode().FileType()).
FileType(i) == "dir"

\* The inode a Lookup returns next: a new one. Inodes and the entries created
\* for them are numbered alike, in the order of the lookups.
UnusedIdx == {k \in DOMAIN LookupInodes :
                /\ fsOf[Fresh[k]] = NULL
                /\ \A t \in Threads : ~(pc[t] = "looked" /\ loc[t].ino = LookupInodes[k])}
NextInode == LookupInodes[CHOOSE k \in UnusedIdx : \A j \in UnusedIdx : k <= j]

\* The entry allocated for the looked-up inode i.
EntryFor(i) == Fresh[CHOOSE k \in DOMAIN LookupInodes : LookupInodes[k] = i]

\* DentryRefs: the count of a newly allocated entry is one reference.
InitialRefs == 1

\* DentryRefs.IncRef: count + 1.
RefsIncRef(n) == n + 1

\* Mutant of RefsTryIncRef: increments whatever the count.
RefsTryIncRef_Unchecked(n) == [ok |-> TRUE, n |-> n + 1]

\* DentryRefs.TryIncRef: [ok, count]: increments only if the count is > 0.
RefsTryIncRef(n) == IF n > 0 THEN [ok |-> TRUE, n |-> n + 1] ELSE [ok |-> FALSE, n |-> n]

\* DentryRefs.DecRef: [zero, count]: count - 1, and the destructor is called
\* on the transition to zero.
RefsDecRef(n) == [zero |-> (n - 1 = 0), n |-> n - 1]

\* Dentry.isDir.
isDir(d) == (flags[d] % (2 * dflagsIsDir)) \div dflagsIsDir # 0

\* Dentry.isSymlink.
isSymlink(d) == (flags[d] % (2 * dflagsIsSymlink)) \div dflagsIsSymlink # 0

\* The flags Dentry.Init caches for an inode of file type ft.
InitFlags(ft) ==
    (IF ft = "dir" THEN dflagsIsDir ELSE 0) + (IF ft = "lnk" THEN dflagsIsSymlink ELSE 0)

RECURSIVE SumOver(_, _)
SumOver(f, S) == IF S = {} THEN 0
                 ELSE LET x == CHOOSE y \in S : TRUE IN f[x] + SumOver(f, S \ {x})

\* The increments so far that callers made: all of them but the one
\* insertChildLocked made for each inserted child.
CallerIncs == SumOver(incs, Dentries) - Cardinality({d \in Dentries : parent[d] # NULL})

\* Names are opaque to the code, so runs that differ only by a renaming are the
\* same run: a name is looked up only once the names before it have been.
NameOrder == <<"x", "y">>
Used(n) == \/ \E d \in Dentries : name[d] = n
           \/ \E t \in Threads : loc[t].nm = n
NameAllowed(n) == \A k \in DOMAIN NameOrder :
                    NameOrder[k] = n => \A j \in 1..(k - 1) : Used(NameOrder[j])

Reverse(s) == [k \in 1..Len(s) |-> s[Len(s) + 1 - k]]

\* ------------------------------------------------------------ initial state

\* The inode-number allocator of a Filesystem whose counter is at s.
InoStart(s) ==
    /\ nextInoMinusOne = s
    /\ inoPc = [t \in Threads |-> "out"]
    /\ inoRet = [t \in Threads |-> 0]
    /\ inoSeen = [t \in Threads |-> 0]
    /\ inoDone = {}
    /\ inoCalls = 0
    /\ inoWrapped = FALSE
    /\ inoStart = s

\* Package netfilter before any extension has registered (lines 51, 116) and
\* before any call of its functions.
RegStart ==
    /\ matchMakers = [n \in MatchNames |-> NoMatchMaker]
    /\ targetMakers = [id \in TargetIDs |-> NoTargetMaker]
    /\ nfOp = "none"
    /\ nfKey = NoID
    /\ nfRet = NoRet
    /\ trRest = {}
    /\ trRev = 0
    /\ firstMatch = [n \in MatchNames |-> NoMatchMaker]
    /\ firstTarget = [id \in TargetIDs |-> NoTargetMaker]
    /\ mBuf = <<>>

\* The tree of a newly created Filesystem: the root entry alone.
TreeInit ==
    /\ mu = [w |-> NULL, r |-> {}]
    /\ droppedDentriesMu = NULL
    /\ droppedDentries = <<>>
    /\ fsOf = [d \in Dentries |-> IF d = Root THEN "fs" ELSE NULL]
    /\ refs = [d \in Dentries |-> IF d = Root THEN InitialRefs ELSE 0]
    /\ flags = [d \in Dentries |-> IF d = Root THEN InitFlags("dir") ELSE 0]
    /\ parent = [d \in Dentries |-> NULL]
    /\ name = [d \in Dentries |-> NULL]
    /\ dirMu = [d \in Dentries |-> NULL]
    /\ children = [d \in Dentries |-> [n \in Names |-> NULL]]
    /\ inode = [d \in Dentries |-> IF d = Root THEN RootInode ELSE NULL]
    /\ inodeRefs = [i \in Inodes |-> IF i = RootInode THEN 1 ELSE 0]
    /\ invalidated = {}
    /\ pc = [t \in Threads |-> "idle"]
    /\ cur = [t \in Threads |-> NULL]
    /\ decRefParent = [t \in Threads |-> FALSE]
    /\ todo = [t \in Threads |-> <<>>]
    /\ loc = [t \in Threads |-> NoLoc]
    /\ owned = [d \in Dentries |-> IF d = Root THEN 1 ELSE 0]
    /\ incs = [d \in Dentries |-> 0]
    /\ decs = [d \in Dentries |-> 0]
    /\ destroys = [d \in Dentries |-> 0]

\* The arguments of the marshalEntryMatch call of the run.
MarshalArgs(nm, data) == mName = nm /\ mData = data

NfStart == RegStart /\ MarshalArgs(<<>>, <<>>)

Init == TreeInit /\ InoStart(0) /\ NfStart


\* ------------------------------------------------------- reference counting

\* A caller takes another reference on d with IncRef: it already holds one, or
\* it found d while holding mu for reading.
IncRef(t, d) ==
    /\ pc[t] \in {"idle", "read"}
    /\ fsOf[d] # NULL
    /\ owned[d] > 0 \/ (pc[t] = "read" /\ refs[d] > 0)
    /\ CallerIncs < MaxIncs
    /\ refs' = [refs EXCEPT ![d] = RefsIncRef(refs[d])]
    /\ owned' = [owned EXCEPT ![d] = @ + 1]
    /\ incs' = [incs EXCEPT ![d] = @ + 1]
    /\ UNCHANGED <<mu, fsVars, fsOf, flags, parent, name, dirMu, children, inode,
                   inodeRefs, invalidated, pc, decVars, loc, decs, destroys>>
    /\ UNCHANGED <<inoVars, nfVars>>

\* A caller tries to take a reference on an entry it has a pointer to.
TryIncRef(t, d) ==
    /\ pc[t] \in {"idle", "read"}
    /\ fsOf[d] # NULL
    /\ refs[d] = 0 \/ CallerIncs < MaxIncs
    /\ LET res == RefsTryIncRef(refs[d]) IN
        /\ refs' = [refs EXCEPT ![d] = res.n]
        /\ owned' = [owned EXCEPT ![d] = IF res.ok THEN @ + 1 ELSE @]
        /\ incs' = [incs EXCEPT ![d] = IF res.ok THEN @ + 1 ELSE @]
    /\ UNCHANGED <<mu, fsVars, fsOf, flags, parent, name, dirMu, children, inode,
                   inodeRefs, invalidated, pc, decVars, loc, decs, destroys>>
    /\ UNCHANGED <<inoVars, nfVars>>

\* ------------------------------------------------------------ Dentry.DecRef

\* A DecRef call on d starts (line 394-395).
EnterDecRef(t, d) ==
    /\ cur' = [cur EXCEPT ![t] = d]
    /\ decRefParent' = [decRefParent EXCEPT ![t] = FALSE]
    /\ decs' = [decs EXCEPT ![d] = @ + 1]
    /\ pc' = [pc EXCEPT ![t] = "dr_lock"]

\* A thread holding none of the locks drops a reference it holds.
DecRef_Call(t, d) ==
    /\ pc[t] = "idle"
    /\ owned[d] > 0
    /\ owned' = [owned EXCEPT ![d] = @ - 1]
    /\ EnterDecRef(t, d)
    /\ UNCHANGED <<mu, fsVars, treeVars, todo, loc, incs, destroys>>
    /\ UNCHANGED <<inoVars, nfVars>>

\* Mutant of DecRef_Lock: d.fs.mu.RLock() in place of d.fs.mu.Lock().
DecRef_Lock_Reader(t) ==
    /\ pc[t] = "dr_lock"
    /\ CanRLock
    /\ mu' = [mu EXCEPT !.r = @ \cup {t}]
    /\ pc' = [pc EXCEPT ![t] = "dr_dec"]
    /\ UNCHANGED <<fsVars, treeVars, decVars, loc, ghostVars>>
    /\ UNCHANGED <<inoVars, nfVars>>

\* d.fs.mu.Lock() (line 396), first half: take the writer slot.
DecRef_Lock(t) ==
    /\ pc[t] = "dr_lock"
    /\ CanLockPending
    /\ mu' = [mu EXCEPT !.w = t]
    /\ pc' = [pc EXCEPT ![t] = "dr_wait"]
    /\ UNCHANGED <<fsVars, treeVars, decVars, loc, ghostVars>>
    /\ UNCHANGED <<inoVars, nfVars>>

\* Mutant of DecRef_Locked: Lock() returns without waiting for the readers.
DecRef_Locked_NoWait(t) ==
    /\ pc[t] = "dr_wait"
    /\ pc' = [pc EXCEPT ![t] = "dr_dec"]
    /\ UNCHANGED <<mu, fsVars, treeVars, decVars, loc, ghostVars>>
    /\ UNCHANGED <<inoVars, nfVars>>

\* Mutant of DecRef_Locked: Lock() does not wait for the caller's own read
\* hold.
DecRef_Locked_Upgrade(t) ==
    /\ pc[t] = "dr_wait"
    /\ mu.r \subseteq {t}
    /\ pc' = [pc EXCEPT ![t] = "dr_dec"]
    /\ UNCHANGED <<mu, fsVars, treeVars, decVars, loc, ghostVars>>
    /\ UNCHANGED <<inoVars, nfVars>>

\* d.fs.mu.Lock(), second half: the readers have left.
DecRef_Locked(t) ==
    /\ pc[t] = "dr_wait"
    /\ CanLockEnter
    /\ pc' = [pc EXCEPT ![t] = "dr_dec"]
    /\ UNCHANGED <<mu, fsVars, treeVars, decVars, loc, ghostVars>>
    /\ UNCHANGED <<inoVars, nfVars>>

\* Mutant of DecRef_Dec: the destructor body runs on every decrement, not
\* only on the one that reaches zero.
DecRef_Dec_Always(t) ==
    /\ pc[t] = "dr_dec"
    /\ LET d == cur[t]
           res == RefsDecRef(refs[d]) IN
        /\ refs' = [refs EXCEPT ![d] = res.n]
        /\ inodeRefs' = IF inode[d] # NULL
                        THEN [inodeRefs EXCEPT ![inode[d]] = @ - 1] ELSE inodeRefs
        /\ inode' = [inode EXCEPT ![d] = NULL]
        /\ destroys' = [destroys EXCEPT ![d] = @ + 1]
        /\ decRefParent' = [decRefParent EXCEPT ![t] = (res.zero /\ parent[d] # NULL)]
        /\ pc' = [pc EXCEPT ![t] = IF parent[d] # NULL THEN "dr_dirlock"
                                                      ELSE "dr_unlock"]
    /\ UNCHANGED <<mu, fsVars, fsOf, flags, parent, name, dirMu, children,
                   invalidated, cur, todo, loc, owned, incs, decs>>
    /\ UNCHANGED <<inoVars, nfVars>>

\* Mutant of DecRef_Dec: the destructor does not record that the parent is to
\* be decremented.
DecRef_Dec_NoParent(t) ==
    /\ pc[t] = "dr_dec"
    /\ LET d == cur[t]
           res == RefsDecRef(refs[d]) IN
        /\ refs' = [refs EXCEPT ![d] = res.n]
        /\ IF res.zero
           THEN /\ inodeRefs' = [inodeRefs EXCEPT ![inode[d]] = @ - 1]
                /\ inode' = [inode EXCEPT ![d] = NULL]
                /\ destroys' = [destroys EXCEPT ![d] = @ + 1]
                /\ pc' = [pc EXCEPT ![t] = IF parent[d] # NULL THEN "dr_dirlock"
                                                              ELSE "dr_unlock"]
           ELSE /\ pc' = [pc EXCEPT ![t] = "dr_unlock"]
                /\ UNCHANGED <<inodeRefs, inode, destroys>>
    /\ UNCHANGED <<mu, fsVars, fsOf, flags, parent, name, dirMu, children,
                   invalidated, cur, decRefParent, todo, loc, owned, incs, decs>>
    /\ UNCHANGED <<inoVars, nfVars>>

\* d.DentryRefs.DecRef(func) (lines 397-402): the decrement and, on zero, the
\* destructor up to d.parent.dirMu.Lock().
DecRef_Dec(t) ==
    /\ pc[t] = "dr_dec"
    /\ LET d == cur[t]
           res == RefsDecRef(refs[d]) IN
        /\ refs' = [refs EXCEPT ![d] = res.n]
        /\ IF res.zero
           THEN /\ inodeRefs' = [inodeRefs EXCEPT ![inode[d]] = @ - 1]
                /\ inode' = [inode EXCEPT ![d] = NULL]
                /\ destroys' = [destroys EXCEPT ![d] = @ + 1]
                /\ decRefParent' = [decRefParent EXCEPT ![t] = (parent[d] # NULL)]
                /\ pc' = [pc EXCEPT ![t] = IF parent[d] # NULL THEN "dr_dirlock"
                                                              ELSE "dr_unlock"]
           ELSE /\ pc' = [pc EXCEPT ![t] = "dr_unlock"]
                /\ UNCHANGED <<inodeRefs, inode, destroys, decRefParent>>
    /\ UNCHANGED <<mu, fsVars, fsOf, flags, parent, name, dirMu, children,
                   invalidated, cur, todo, loc, owned, incs, decs>>
    /\ UNCHANGED <<inoVars, nfVars>>

\* d.parent.dirMu.Lock() (line 403).
DecRef_DirLock(t) ==
    /\ pc[t] = "dr_dirlock"
    /\ dirMu[parent[cur[t]]] = NULL
    /\ dirMu' = [dirMu EXCEPT ![parent[cur[t]]] = t]
    /\ pc' = [pc EXCEPT ![t] = "dr_remove"]
    /\ UNCHANGED <<mu, fsVars, fsOf, refs, flags, parent, name, children, inode,
                   inodeRefs, invalidated, decVars, loc, ghostVars>>
    /\ UNCHANGED <<inoVars, nfVars>>

\* Mutant of DecRef_Remove: the binding is left in the parent's child map.
DecRef_Remove_NoDelete(t) ==
    /\ pc[t] = "dr_remove"
    /\ dirMu' = [dirMu EXCEPT ![parent[cur[t]]] = NULL]
    /\ pc' = [pc EXCEPT ![t] = "dr_unlock"]
    /\ UNCHANGED <<mu, fsVars, fsOf, refs, flags, parent, name, children, inode,
                   inodeRefs, invalidated, decVars, loc, ghostVars>>
    /\ UNCHANGED <<inoVars, nfVars>>

\* Mutant of DecRef_Remove: InvalidateDentry is called whether or not the name
\* was bound.
DecRef_Remove_AlwaysInvalidate(t) ==
    /\ pc[t] = "dr_remove"
    /\ LET d == cur[t]
           p == parent[d] IN
        /\ children' = [children EXCEPT ![p][name[d]] = NULL]
        /\ invalidated' = invalidated \cup {d}
        /\ dirMu' = [dirMu EXCEPT ![p] = NULL]
    /\ pc' = [pc EXCEPT ![t] = "dr_unlock"]
    /\ UNCHANGED <<mu, fsVars, fsOf, refs, flags, parent, name, inode, inodeRefs,
                   decVars, loc, ghostVars>>
    /\ UNCHANGED <<inoVars, nfVars>>

\* Lines 404-410: remove the binding of d.name from d.parent.children if there
\* is one, invalidate d, unlock d.parent.dirMu.
DecRef_Remove(t) ==
    /\ pc[t] = "dr_remove"
    /\ LET d == cur[t]
           p == parent[d] IN
        /\ IF children[p][name[d]] # NULL
           THEN /\ children' = [children EXCEPT ![p][name[d]] = NULL]
                /\ invalidated' = invalidated \cup {d}
           ELSE UNCHANGED <<children, invalidated>>
        /\ dirMu' = [dirMu EXCEPT ![p] = NULL]
    /\ pc' = [pc EXCEPT ![t] = "dr_unlock"]
    /\ UNCHANGED <<mu, fsVars, fsOf, refs, flags, parent, name, inode, inodeRefs,
                   decVars, loc, ghostVars>>
    /\ UNCHANGED <<inoVars, nfVars>>

\* Mutant of DecRef_Unlock: the parent is not decremented after the unlock.
DecRef_Unlock_SkipParent(t) ==
    /\ pc[t] = "dr_unlock"
    /\ mu' = [mu EXCEPT !.w = NULL]
    /\ IF todo[t] # <<>>
       THEN /\ EnterDecRef(t, Head(todo[t]))
            /\ todo' = [todo EXCEPT ![t] = Tail(@)]
       ELSE /\ pc' = [pc EXCEPT ![t] = "idle"]
            /\ cur' = [cur EXCEPT ![t] = NULL]
            /\ decRefParent' = [decRefParent EXCEPT ![t] = FALSE]
            /\ UNCHANGED <<todo, decs>>
    /\ UNCHANGED <<fsVars, treeVars, loc, owned, incs, destroys>>
    /\ UNCHANGED <<inoVars, nfVars>>

\* d.fs.mu.Unlock() (line 413), then d.parent.DecRef(ctx) if decRefParent
\* (lines 414-416); otherwise the call returns, to the next deferred DecRef of
\* processDeferredDecRefs if there is one.
DecRef_Unlock(t) ==
    /\ pc[t] = "dr_unlock"
    /\ mu' = [mu EXCEPT !.w = NULL]
    /\ IF decRefParent[t]
       THEN /\ EnterDecRef(t, parent[cur[t]])
            /\ UNCHANGED todo
       ELSE IF todo[t] # <<>>
       THEN /\ EnterDecRef(t, Head(todo[t]))
            /\ todo' = [todo EXCEPT ![t] = Tail(@)]
       ELSE /\ pc' = [pc EXCEPT ![t] = "idle"]
            /\ cur' = [cur EXCEPT ![t] = NULL]
            /\ UNCHANGED <<decRefParent, todo, decs>>
    /\ UNCHANGED <<fsVars, treeVars, loc, owned, incs, destroys>>
    /\ UNCHANGED <<inoVars, nfVars>>


\* ------------------------------------------------------- read-side operations

\* fs.mu.RLock(): a filesystem operation starts its read critical section.
RLock(t) ==
    /\ pc[t] = "idle"
    /\ CanRLock
    /\ mu' = [mu EXCEPT !.r = @ \cup {t}]
    /\ pc' = [pc EXCEPT ![t] = "read"]
    /\ UNCHANGED <<fsVars, treeVars, decVars, loc, ghostVars>>
    /\ UNCHANGED <<inoVars, nfVars>>

\* inodeDirectory.Lookup (lines 604-619), called on the inode of a live
\* directory p met during the walk: returns inode i with an extra reference,
\* to be owned by the entry created for it.
Lookup(t, p, i) ==
    /\ pc[t] = "read"
    /\ fsOf[p] # NULL /\ refs[p] > 0 /\ isDir(p)
    /\ UnusedIdx # {} /\ i = NextInode
    /\ inodeRefs' = [inodeRefs EXCEPT ![i] = @ + 1]
    /\ loc' = [loc EXCEPT ![t].ino = i, ![t].par = p]
    /\ pc' = [pc EXCEPT ![t] = "looked"]
    /\ UNCHANGED <<mu, fsVars, fsOf, refs, flags, parent, name, dirMu, children,
                   inode, invalidated, decVars, ghostVars>>
    /\ UNCHANGED <<inoVars, nfVars>>

\* Mutant of DentryInit: Init takes a reference of its own on the inode.
DentryInit_IncRef(t) ==
    /\ pc[t] = "looked"
    /\ LET d == EntryFor(loc[t].ino)
           i == loc[t].ino IN
        /\ fsOf' = [fsOf EXCEPT ![d] = "fs"]
        /\ refs' = [refs EXCEPT ![d] = InitialRefs]
        /\ inode' = [inode EXCEPT ![d] = i]
        /\ inodeRefs' = [inodeRefs EXCEPT ![i] = @ + 1]
        /\ flags' = [flags EXCEPT ![d] = InitFlags(FileType(i))]
        /\ loc' = [loc EXCEPT ![t].child = d]
    /\ pc' = [pc EXCEPT ![t] = "inited"]
    /\ UNCHANGED <<mu, fsVars, parent, name, dirMu, children, invalidated,
                   decVars, ghostVars>>
    /\ UNCHANGED <<inoVars, nfVars>>

\* Dentry.Init (lines 364-376) on a newly allocated entry.
DentryInit(t) ==
    /\ pc[t] = "looked"
    /\ LET d == EntryFor(loc[t].ino)
           i == loc[t].ino IN
        /\ fsOf' = [fsOf EXCEPT ![d] = "fs"]
        /\ refs' = [refs EXCEPT ![d] = InitialRefs]
        /\ inode' = [inode EXCEPT ![d] = i]
        /\ flags' = [flags EXCEPT ![d] = InitFlags(FileType(i))]
        /\ loc' = [loc EXCEPT ![t].child = d]
    /\ pc' = [pc EXCEPT ![t] = "inited"]
    /\ UNCHANGED <<mu, fsVars, parent, name, dirMu, children, inodeRefs, invalidated,
                   decVars, ghostVars>>
    /\ UNCHANGED <<inoVars, nfVars>>

\* insertChild (lines 441-442): d.dirMu.Lock() on the directory the lookup
\* was made in, for the name n that was looked up.
InsertChild_Lock(t, n) ==
    /\ pc[t] = "inited"
    /\ NameAllowed(n)
    /\ dirMu[loc[t].par] = NULL
    /\ dirMu' = [dirMu EXCEPT ![loc[t].par] = t]
    /\ loc' = [loc EXCEPT ![t].nm = n]
    /\ pc' = [pc EXCEPT ![t] = "ic_locked"]
    /\ UNCHANGED <<mu, fsVars, fsOf, refs, flags, parent, name, children, inode,
                   inodeRefs, invalidated, decVars, ghostVars>>
    /\ UNCHANGED <<inoVars, nfVars>>

\* Mutant of insertChildLocked: d.IncRef() (line 458) left out.
insertChildLocked_NoIncRef(t) ==
    /\ pc[t] = "ic_locked"
    /\ LET d == loc[t].par
           child == loc[t].child
           n == loc[t].nm IN
        /\ parent' = [parent EXCEPT ![child] = d]
        /\ name' = [name EXCEPT ![child] = n]
        /\ children' = [children EXCEPT ![d][n] = child]
        /\ dirMu' = [dirMu EXCEPT ![d] = NULL]
        /\ pc' = [pc EXCEPT ![t] = "drop"]
    /\ UNCHANGED <<mu, fsVars, fsOf, refs, flags, inode, inodeRefs, invalidated,
                   decVars, loc, ghostVars>>
    /\ UNCHANGED <<inoVars, nfVars>>

\* Mutant of insertChildLocked: the reference is taken on child, not on d.
insertChildLocked_ChildRef(t) ==
    /\ pc[t] = "ic_locked"
    /\ LET d == loc[t].par
           child == loc[t].child
           n == loc[t].nm IN
        /\ refs' = [refs EXCEPT ![child] = RefsIncRef(refs[child])]
        /\ incs' = [incs EXCEPT ![child] = @ + 1]
        /\ parent' = [parent EXCEPT ![child] = d]
        /\ name' = [name EXCEPT ![child] = n]
        /\ children' = [children EXCEPT ![d][n] = child]
        /\ dirMu' = [dirMu EXCEPT ![d] = NULL]
        /\ pc' = [pc EXCEPT ![t] = "drop"]
    /\ UNCHANGED <<mu, fsVars, fsOf, flags, inode, inodeRefs, invalidated, decVars,
                   loc, owned, decs, destroys>>
    /\ UNCHANGED <<inoVars, nfVars>>

\* Mutant of insertChildLocked: the isDir check (lines 455-457) left out.
insertChildLocked_NoCheck(t) ==
    /\ pc[t] = "ic_locked"
    /\ LET d == loc[t].par
           child == loc[t].child
           n == loc[t].nm IN
        /\ refs' = [refs EXCEPT ![d] = RefsIncRef(refs[d])]
        /\ incs' = [incs EXCEPT ![d] = @ + 1]
        /\ parent' = [parent EXCEPT ![child] = d]
        /\ name' = [name EXCEPT ![child] = n]
        /\ children' = [children EXCEPT ![d][n] = child]
        /\ dirMu' = [dirMu EXCEPT ![d] = NULL]
        /\ pc' = [pc EXCEPT ![t] = "drop"]
    /\ UNCHANGED <<mu, fsVars, fsOf, flags, inode, inodeRefs, invalidated, decVars,
                   loc, owned, decs, destroys>>
    /\ UNCHANGED <<inoVars, nfVars>>

\* Mutant of insertChildLocked: the child records another name than the one it
\* is bound under.
insertChildLocked_WrongName(t) ==
    /\ pc[t] = "ic_locked"
    /\ LET d == loc[t].par
           child == loc[t].child
           n == loc[t].nm IN
        /\ refs' = [refs EXCEPT ![d] = RefsIncRef(refs[d])]
        /\ incs' = [incs EXCEPT ![d] = @ + 1]
        /\ parent' = [parent EXCEPT ![child] = d]
        /\ name' = [name EXCEPT ![child] = CHOOSE m \in Names : m # n]
        /\ children' = [children EXCEPT ![d][n] = child]
        /\ dirMu' = [dirMu EXCEPT ![d] = NULL]
        /\ pc' = [pc EXCEPT ![t] = "drop"]
    /\ UNCHANGED <<mu, fsVars, fsOf, flags, inode, inodeRefs, invalidated, decVars,
                   loc, owned, decs, destroys>>
    /\ UNCHANGED <<inoVars, nfVars>>

\* insertChildLocked (lines 454-465), then d.dirMu.Unlock() (line 444). The
\* looked-up inode has Keep() == false, so the caller goes on to drop the
\* reference on the child it came with (lines 612-616).
insertChildLocked(t) ==
    /\ pc[t] = "ic_locked"
    /\ LET d == loc[t].par
           child == loc[t].child
           n == loc[t].nm IN
        IF ~isDir(d)
        THEN /\ pc' = [pc EXCEPT ![t] = "panic"]
             /\ UNCHANGED <<refs, parent, name, children, dirMu, incs>>
        ELSE /\ refs' = [refs EXCEPT ![d] = RefsIncRef(refs[d])]
             /\ incs' = [incs EXCEPT ![d] = @ + 1]
             /\ parent' = [parent EXCEPT ![child] = d]
             /\ name' = [name EXCEPT ![child] = n]
             /\ children' = [children EXCEPT ![d][n] = child]
             /\ dirMu' = [dirMu EXCEPT ![d] = NULL]
             /\ pc' = [pc EXCEPT ![t] = "drop"]
    /\ UNCHANGED <<mu, fsVars, fsOf, flags, inode, inodeRefs, invalidated, decVars,
                   loc, owned, decs, destroys>>
    /\ UNCHANGED <<inoVars, nfVars>>

\* deferDecRef (lines 283-284): fs.droppedDentriesMu.Lock(), called by a
\* reader to drop the reference of the entry it has just looked up, or another
\* reference that callers hold on an entry d met during the walk. (References
\* on the root are dropped outside the read critical section, with DecRef.)
DeferDecRef_Lock(t, d) ==
    /\ \/ /\ pc[t] = "drop"
          /\ d = loc[t].child
          /\ UNCHANGED owned
       \/ /\ pc[t] = "read"
          /\ d # Root
          /\ owned[d] > 0
          /\ owned' = [owned EXCEPT ![d] = @ - 1]
    /\ droppedDentriesMu = NULL
    /\ droppedDentriesMu' = t
    /\ loc' = [loc EXCEPT ![t] = [NoLoc EXCEPT !.child = d]]
    /\ pc' = [pc EXCEPT ![t] = "dd_locked"]
    /\ UNCHANGED <<mu, droppedDentries, treeVars, decVars, incs, decs, destroys>>
    /\ UNCHANGED <<inoVars, nfVars>>

\* Mutant of DeferDecRef_Append: the append without
\* fs.droppedDentriesMu.Unlock().
DeferDecRef_Append_NoUnlock(t) ==
    /\ pc[t] = "dd_locked"
    /\ droppedDentries' = Append(droppedDentries, loc[t].child)
    /\ loc' = [loc EXCEPT ![t] = NoLoc]
    /\ pc' = [pc EXCEPT ![t] = "read"]
    /\ UNCHANGED <<mu, droppedDentriesMu, treeVars, decVars, ghostVars>>
    /\ UNCHANGED <<inoVars, nfVars>>

\* Mutant of DeferDecRef_Append: the reference is dropped at once, the count
\* being decremented inside the read critical section.
DeferDecRef_Append_Eager(t) ==
    /\ pc[t] = "dd_locked"
    /\ droppedDentries' = Append(droppedDentries, loc[t].child)
    /\ droppedDentriesMu' = NULL
    /\ refs' = [refs EXCEPT ![loc[t].child] = @ - 1]
    /\ loc' = [loc EXCEPT ![t] = NoLoc]
    /\ pc' = [pc EXCEPT ![t] = "read"]
    /\ UNCHANGED <<mu, fsOf, flags, parent, name, dirMu, children, inode, inodeRefs,
                   invalidated, decVars, ghostVars>>
    /\ UNCHANGED <<inoVars, nfVars>>

\* deferDecRef (lines 285-286): the append and the unlock.
DeferDecRef_Append(t) ==
    /\ pc[t] = "dd_locked"
    /\ droppedDentries' = Append(droppedDentries, loc[t].child)
    /\ droppedDentriesMu' = NULL
    /\ loc' = [loc EXCEPT ![t] = NoLoc]
    /\ pc' = [pc EXCEPT ![t] = "read"]
    /\ UNCHANGED <<mu, treeVars, decVars, ghostVars>>
    /\ UNCHANGED <<inoVars, nfVars>>

\* fs.mu.RUnlock(): the read critical section ends; the deferred
\* processDeferredDecRefs call comes next (lines 268-270).
RUnlock(t) ==
    /\ pc[t] = "read"
    /\ mu' = [mu EXCEPT !.r = @ \ {t}]
    /\ pc' = [pc EXCEPT ![t] = "flush"]
    /\ UNCHANGED <<fsVars, treeVars, decVars, loc, ghostVars>>
    /\ UNCHANGED <<inoVars, nfVars>>

\* processDeferredDecRefs (line 294): fs.droppedDentriesMu.Lock().
ProcessDeferred_Lock(t) ==
    /\ pc[t] = "flush"
    /\ droppedDentriesMu = NULL
    /\ droppedDentriesMu' = t
    /\ pc' = [pc EXCEPT ![t] = "pd_locked"]
    /\ UNCHANGED <<mu, droppedDentries, treeVars, decVars, loc, ghostVars>>
    /\ UNCHANGED <<inoVars, nfVars>>

\* Mutant of ProcessDeferred_Drain: the queue is not reset (line 300 left out).
ProcessDeferred_Drain_NoReset(t) ==
    /\ pc[t] = "pd_locked"
    /\ droppedDentriesMu' = NULL
    /\ LET calls == Reverse(droppedDentries) IN
        IF calls = <<>>
        THEN /\ pc' = [pc EXCEPT ![t] = "idle"]
             /\ UNCHANGED <<decVars, decs>>
        ELSE /\ EnterDecRef(t, Head(calls))
             /\ todo' = [todo EXCEPT ![t] = Tail(calls)]
    /\ UNCHANGED <<mu, droppedDentries, treeVars, loc, owned, incs, destroys>>
    /\ UNCHANGED <<inoVars, nfVars>>

\* Mutant of ProcessDeferred_Drain: the DecRef calls are made inside the loop,
\* with fs.droppedDentriesMu still held.
ProcessDeferred_Drain_HoldLock(t) ==
    /\ pc[t] = "pd_locked"
    /\ droppedDentries' = <<>>
    /\ LET calls == Reverse(droppedDentries) IN
        IF calls = <<>>
        THEN /\ pc' = [pc EXCEPT ![t] = "idle"]
             /\ droppedDentriesMu' = NULL
             /\ UNCHANGED <<decVars, decs>>
        ELSE /\ EnterDecRef(t, Head(calls))
             /\ todo' = [todo EXCEPT ![t] = Tail(calls)]
             /\ UNCHANGED droppedDentriesMu
    /\ UNCHANGED <<mu, treeVars, loc, owned, incs, destroys>>
    /\ UNCHANGED <<inoVars, nfVars>>

\* processDeferredDecRefs (lines 295-302): a DecRef is deferred for every
\* queued entry, the queue is reset and unlocked, and on return the deferred
\* calls run, last deferred first.
ProcessDeferred_Drain(t) ==
    /\ pc[t] = "pd_locked"
    /\ droppedDentries' = <<>>
    /\ droppedDentriesMu' = NULL
    /\ LET calls == Reverse(droppedDentries) IN
        IF calls = <<>>
        THEN /\ pc' = [pc EXCEPT ![t] = "idle"]
             /\ UNCHANGED <<decVars, decs>>
        ELSE /\ EnterDecRef(t, Head(calls))
             /\ todo' = [todo EXCEPT ![t] = Tail(calls)]
    /\ UNCHANGED <<mu, treeVars, loc, owned, incs, destroys>>
    /\ UNCHANGED <<inoVars, nfVars>>

\* ------------------------------------------------------------------ NextIno

InoModulus == 2 ^ InoBits

\* atomic.AddUint64(&n, 1): the new value of the counter, which is also the
\* value returned.
AddUint64(n) == (n + 1) % InoModulus

\* The largest element of a set of naturals, 0 for the empty set.
MaxOf(S) == IF S = {} THEN 0 ELSE CHOOSE x \in S : \A y \in S : y <= x

\* A thread calls NextIno (line 310).
NextIno_Call(t) ==
    /\ inoPc[t] = "out"
    /\ inoCalls < MaxInoCalls
    /\ inoCalls' = inoCalls + 1
    /\ inoSeen' = [inoSeen EXCEPT ![t] = MaxOf(inoDone)]
    /\ inoPc' = [inoPc EXCEPT ![t] = "add"]
    /\ UNCHANGED <<nextInoMinusOne, inoRet, inoDone, inoWrapped, inoStart>>
    /\ UNCHANGED <<mu, fsVars, treeVars, pc, decVars, loc, ghostVars>>
    /\ UNCHANGED nfVars

\* Mutant of NextIno_Add: the incremented value is returned but not stored.
NextIno_Add_NoStore(t) ==
    /\ inoPc[t] = "add"
    /\ inoRet' = [inoRet EXCEPT ![t] = AddUint64(nextInoMinusOne)]
    /\ inoWrapped' = (inoWrapped \/ AddUint64(nextInoMinusOne) < nextInoMinusOne)
    /\ inoPc' = [inoPc EXCEPT ![t] = "ret"]
    /\ UNCHANGED <<nextInoMinusOne, inoSeen, inoDone, inoCalls, inoStart>>
    /\ UNCHANGED <<mu, fsVars, treeVars, pc, decVars, loc, ghostVars>>
    /\ UNCHANGED nfVars

\* atomic.AddUint64(&fs.nextInoMinusOne, 1) (line 311).
NextIno_Add(t) ==
    /\ inoPc[t] = "add"
    /\ nextInoMinusOne' = AddUint64(nextInoMinusOne)
    /\ inoRet' = [inoRet EXCEPT ![t] = AddUint64(nextInoMinusOne)]
    /\ inoWrapped' = (inoWrapped \/ AddUint64(nextInoMinusOne) < nextInoMinusOne)
    /\ inoPc' = [inoPc EXCEPT ![t] = "ret"]
    /\ UNCHANGED <<inoSeen, inoDone, inoCalls, inoStart>>
    /\ UNCHANGED <<mu, fsVars, treeVars, pc, decVars, loc, ghostVars>>
    /\ UNCHANGED nfVars

\* NextIno returns (line 311-312).
NextIno_Return(t) ==
    /\ inoPc[t] = "ret"
    /\ inoDone' = inoDone \cup {inoRet[t]}
    /\ inoPc' = [inoPc EXCEPT ![t] = "out"]
    /\ UNCHANGED <<nextInoMinusOne, inoRet, inoSeen, inoCalls, inoWrapped, inoStart>>
    /\ UNCHANGED <<mu, fsVars, treeVars, pc, decVars, loc, ghostVars>>
    /\ UNCHANGED nfVars

\* Concurrent NextIno calls on a Filesystem that is new, or whose counter is
\* two short of the largest value.
InoInit == TreeInit /\ NfStart /\ \E s \in {0, InoModulus - 2} : InoStart(s)

InoNext ==
    \/ \E t \in Threads : NextIno_Call(t)
    \/ \E t \in Threads : NextIno_Add(t)
    \/ \E t \in Threads : NextIno_Return(t)

InoSpec == InoInit /\ [][InoNext]_vars

\* ------------------------------------------------------------ specification

Next ==
    \/ \E t \in Threads, d \in Dentries : IncRef(t, d)
    \/ \E t \in Threads, d \in Dentries : TryIncRef(t, d)
    \/ \E t \in Threads, d \in Dentries : DecRef_Call(t, d)
    \/ \E t \in Threads : DecRef_Lock(t)
    \/ \E t \in Threads : DecRef_Locked(t)
    \/ \E t \in Threads : DecRef_Dec(t)
    \/ \E t \in Threads : DecRef_DirLock(t)
    \/ \E t \in Threads : DecRef_Remove(t)
    \/ \E t \in Threads : DecRef_Unlock(t)
    \/ \E t \in Threads : RLock(t)
    \/ \E t \in Threads, p \in Dentries, i \in Inodes : Lookup(t, p, i)
    \/ \E t \in Threads : DentryInit(t)
    \/ \E t \in Threads, n \in Names : InsertChild_Lock(t, n)
    \/ \E t \in Threads : insertChildLocked(t)
    \/ \E t \in Threads, d \in Dentries : DeferDecRef_Lock(t, d)
    \/ \E t \in Threads : DeferDecRef_Append(t)
    \/ \E t \in Threads : RUnlock(t)
    \/ \E t \in Threads : ProcessDeferred_Lock(t)
    \/ \E t \in Threads : ProcessDeferred_Drain(t)

Spec == Init /\ [][Next]_vars


\* ------------------------------------------- insertChild on a non-directory

\* The entry of a regular file, linked under the root when the run begins.
FileEntry == Fresh[1]
FileInode == LookupInodes[1]
FileName == NameOrder[1]

\* A Filesystem whose root directory holds one regular file, on which a caller
\* holds a reference.
PanicInit ==
    /\ mu = [w |-> NULL, r |-> {}]
    /\ droppedDentriesMu = NULL
    /\ droppedDentries = <<>>
    /\ fsOf = [d \in Dentries |-> IF d \in {Root, FileEntry} THEN "fs" ELSE NULL]
    /\ refs = [d \in Dentries |-> IF d = Root THEN RefsIncRef(InitialRefs)
                                  ELSE IF d = FileEntry THEN InitialRefs ELSE 0]
    /\ flags = [d \in Dentries |-> IF d = Root THEN InitFlags("dir")
                                   ELSE IF d = FileEntry THEN InitFlags("reg") ELSE 0]
    /\ parent = [d \in Dentries |-> IF d = FileEntry THEN Root ELSE NULL]
    /\ name = [d \in Dentries |-> IF d = FileEntry THEN FileName ELSE NULL]
    /\ dirMu = [d \in Dentries |-> NULL]
    /\ children = [d \in Dentries |->
                     [n \in Names |-> IF d = Root /\ n = FileName THEN FileEntry ELSE NULL]]
    /\ inode = [d \in Dentries |-> IF d = Root THEN RootInode
                                   ELSE IF d = FileEntry THEN FileInode ELSE NULL]
    /\ inodeRefs = [i \in Inodes |-> IF i \in {RootInode, FileInode} THEN 1 ELSE 0]
    /\ invalidated = {}
    /\ pc = [t \in Threads |-> "idle"]
    /\ cur = [t \in Threads |-> NULL]
    /\ decRefParent = [t \in Threads |-> FALSE]
    /\ todo = [t \in Threads |-> <<>>]
    /\ loc = [t \in Threads |-> NoLoc]
    /\ owned = [d \in Dentries |-> IF d \in {Root, FileEntry} THEN 1 ELSE 0]
    /\ incs = [d \in Dentries |-> IF d = Root THEN 1 ELSE 0]
    /\ decs = [d \in Dentries |-> 0]
    /\ destroys = [d \in Dentries |-> 0]
    /\ InoStart(0)
    /\ NfStart

\* insertChild (lines 441-442) called on an entry p that is not a directory,
\* against the precondition: d.dirMu.Lock().
InsertChild_Lock_NonDir(t, p, n) ==
    /\ pc[t] = "inited"
    /\ NameAllowed(n)
    /\ fsOf[p] # NULL /\ refs[p] > 0 /\ ~isDir(p)
    /\ dirMu[p] = NULL
    /\ dirMu' = [dirMu EXCEPT ![p] = t]
    /\ loc' = [loc EXCEPT ![t].par = p, ![t].nm = n]
    /\ pc' = [pc EXCEPT ![t] = "ic_locked"]
    /\ UNCHANGED <<mu, fsVars, fsOf, refs, flags, parent, name, children, inode,
                   inodeRefs, invalidated, decVars, ghostVars>>
    /\ UNCHANGED <<inoVars, nfVars>>

PanicNext ==
    \/ \E t \in Threads, d \in Dentries : IncRef(t, d)
    \/ \E t \in Threads, d \in Dentries : TryIncRef(t, d)
    \/ \E t \in Threads, d \in Dentries : DecRef_Call(t, d)
    \/ \E t \in Threads : DecRef_Lock(t)
    \/ \E t \in Threads : DecRef_Locked(t)
    \/ \E t \in Threads : DecRef_Dec(t)
    \/ \E t \in Threads : DecRef_DirLock(t)
    \/ \E t \in Threads : DecRef_Remove(t)
    \/ \E t \in Threads : DecRef_Unlock(t)
    \/ \E t \in Threads : RLock(t)
    \/ \E t \in Threads, p \in Dentries, i \in Inodes : Lookup(t, p, i)
    \/ \E t \in Threads : DentryInit(t)
    \/ \E t \in Threads, n \in Names : InsertChild_Lock(t, n)
    \/ \E t \in Threads : insertChildLocked(t)
    \/ \E t \in Threads, d \in Dentries : DeferDecRef_Lock(t, d)
    \/ \E t \in Threads : DeferDecRef_Append(t)
    \/ \E t \in Threads : RUnlock(t)
    \/ \E t \in Threads : ProcessDeferred_Lock(t)
    \/ \E t \in Threads : ProcessDeferred_Drain(t)
    \/ \E t \in Threads, p \in Dentries, n \in Names : InsertChild_Lock_NonDir(t, p, n)

PanicSpec == PanicInit /\ [][PanicNext]_vars

\* ------------------------------------------------ DecRef in a read context

\* A reader drops a reference it holds by calling Dentry.DecRef directly
\* (lines 394-395), not through deferDecRef, while it holds mu for reading.
DecRef_InRead(t, d) ==
    /\ pc[t] = "read"
    /\ owned[d] > 0
    /\ owned' = [owned EXCEPT ![d] = @ - 1]
    /\ EnterDecRef(t, d)
    /\ UNCHANGED <<mu, fsVars, treeVars, todo, loc, incs, destroys>>
    /\ UNCHANGED <<inoVars, nfVars>>

ReaderDecRefNext ==
    \/ \E t \in Threads, d \in Dentries : IncRef(t, d)
    \/ \E t \in Threads, d \in Dentries : TryIncRef(t, d)
    \/ \E t \in Threads, d \in Dentries : DecRef_Call(t, d)
    \/ \E t \in Threads : DecRef_Lock(t)
    \/ \E t \in Threads : DecRef_Locked(t)
    \/ \E t \in Threads : DecRef_Dec(t)
    \/ \E t \in Threads : DecRef_DirLock(t)
    \/ \E t \in Threads : DecRef_Remove(t)
    \/ \E t \in Threads : DecRef_Unlock(t)
    \/ \E t \in Threads : RLock(t)
    \/ \E t \in Threads, p \in Dentries, i \in Inodes : Lookup(t, p, i)
    \/ \E t \in Threads : DentryInit(t)
    \/ \E t \in Threads, n \in Names : InsertChild_Lock(t, n)
    \/ \E t \in Threads : insertChildLocked(t)
    \/ \E t \in Threads, d \in Dentries : DeferDecRef_Lock(t, d)
    \/ \E t \in Threads : DeferDecRef_Append(t)
    \/ \E t \in Threads : RUnlock(t)
    \/ \E t \in Threads : ProcessDeferred_Lock(t)
    \/ \E t \in Threads : ProcessDeferred_Drain(t)
    \/ \E t \in Threads, d \in Dentries : DecRef_InRead(t, d)

ReaderDecRefSpec == Init /\ [][ReaderDecRefNext]_vars

\* ------------------------------------------------- netfilter: marshalling

\* linux.SizeOfXTEntryMatch: uint16 MatchSize, [29]byte Name, uint8 Revision.
SizeOfXTEntryMatch == 32
ExtensionNameLen == 29

\* bits.AlignUp(n, a): n rounded up to the next multiple of a.
AlignUp(n, a) == ((n + a - 1) \div a) * a

\* make([]byte, n).
Zeros(n) == [k \in 1..n |-> 0]

\* copy(dst, src): the first min(len(dst), len(src)) bytes of src over dst.
Copy(dst, src) == [k \in 1..Len(dst) |-> IF k <= Len(src) THEN src[k] ELSE dst[k]]

\* uint16(n).
Uint16(n) == n % 65536

\* XTEntryMatch.MarshalUnsafe: the fields in order, MatchSize little-endian.
MarshalXTEntryMatch(m) ==
    <<m.MatchSize % 256, m.MatchSize \div 256>> \o m.Name \o <<m.Revision>>

\* s[lo:hi] of a Go slice (0-based, hi exclusive).
Slice(s, lo, hi) == SubSeq(s, lo + 1, hi)

\* marshalEntryMatch (lines 70-91), as a function of its arguments.
MarshalEntryMatchBytes(nm, data) ==
    LET size == AlignUp(SizeOfXTEntryMatch + Len(data), 8)
        matcher == [MatchSize |-> Uint16(size),
                    Name |-> Copy(Zeros(ExtensionNameLen), nm),
                    Revision |-> 0,
                    Data |-> data]
        entryLen == SizeOfXTEntryMatch
        buf0 == Zeros(size)
        buf1 == Copy(buf0, MarshalXTEntryMatch(matcher))
        buf == Slice(buf1, 0, entryLen) \o Copy(Slice(buf1, entryLen, size), matcher.Data)
        padLen == size - entryLen - Len(matcher.Data)
    IN  Slice(buf, size - padLen, size) \o Zeros(padLen)

\* The byte sequences over DataBytes of length at most n.
RECURSIVE DataUpTo(_)
DataUpTo(n) ==
    IF n = 0 THEN {<<>>}
    ELSE LET S == DataUpTo(n - 1) IN
         S \cup {Append(d, b) : d \in {e \in S : Len(e) = n - 1}, b \in DataBytes}

\* The call marshalEntryMatch(mName, mData).
marshalEntryMatch ==
    /\ nfOp = "none"
    /\ nfOp' = "marshalEntryMatch"
    /\ mBuf' = MarshalEntryMatchBytes(mName, mData)
    /\ UNCHANGED <<mName, mData, regVars, kernfsVars>>

MarshalInit ==
    /\ TreeInit /\ InoStart(0) /\ RegStart
    /\ \E nm \in EntryMatchNames, data \in DataUpTo(MaxDataLen) : MarshalArgs(nm, data)

MarshalNext == marshalEntryMatch

MarshalSpec == MarshalInit /\ [][MarshalNext]_vars

\* ---------------------------------------------------- netfilter: registry

\* The keys registered in the maps.
RegisteredMatches == {n \in MatchNames : matchMakers[n] # NoMatchMaker}
RegisteredTargets == {id \in TargetIDs : targetMakers[id] # NoTargetMaker}

\* No call is inside targetRevision's loop: the functions are called one at a
\* time (the maps are plain Go maps).
NoCallRunning == nfRet.kind # "running"

\* A match name as a key record.
MatchKey(n) == [Name |-> n, NetworkProtocol |-> 0, Revision |-> 0]

\* registerMatchMaker(mm) (lines 55-60).
registerMatchMaker(mm) ==
    /\ NoCallRunning
    /\ nfOp' = "registerMatchMaker"
    /\ nfKey' = MatchKey(mm.name)
    /\ IF matchMakers[mm.name] # NoMatchMaker
       THEN /\ nfRet' = Ret("panic", mm.impl)
            /\ UNCHANGED matchMakers
       ELSE /\ matchMakers' = [matchMakers EXCEPT ![mm.name] = mm]
            /\ nfRet' = Ret("ok", mm.impl)
    /\ firstMatch' = IF firstMatch[mm.name] = NoMatchMaker
                     THEN [firstMatch EXCEPT ![mm.name] = mm]
                     ELSE firstMatch
    /\ UNCHANGED <<targetMakers, trRest, trRev, firstTarget, marshalVars, kernfsVars>>

\* Mutant of registerTargetMaker: a maker registered under a taken id replaces
\* the one that was there.
registerTargetMaker_Overwrite(tm) ==
    /\ NoCallRunning
    /\ tm.id \in RegisteredTargets \/ Cardinality(RegisteredTargets) < MaxTargets
    /\ nfOp' = "registerTargetMaker"
    /\ nfKey' = tm.id
    /\ targetMakers' = [targetMakers EXCEPT ![tm.id] = tm]
    /\ nfRet' = Ret("ok", tm.impl)
    /\ firstTarget' = IF firstTarget[tm.id] = NoTargetMaker
                      THEN [firstTarget EXCEPT ![tm.id] = tm]
                      ELSE firstTarget
    /\ UNCHANGED <<matchMakers, trRest, trRev, firstMatch, marshalVars, kernfsVars>>

\* registerTargetMaker(tm) (lines 140-145).
registerTargetMaker(tm) ==
    /\ NoCallRunning
    /\ tm.id \in RegisteredTargets \/ Cardinality(RegisteredTargets) < MaxTargets
    /\ nfOp' = "registerTargetMaker"
    /\ nfKey' = tm.id
    /\ IF targetMakers[tm.id] # NoTargetMaker
       THEN /\ nfRet' = Ret("panic", tm.impl)
            /\ UNCHANGED targetMakers
       ELSE /\ targetMakers' = [targetMakers EXCEPT ![tm.id] = tm]
            /\ nfRet' = Ret("ok", tm.impl)
    /\ firstTarget' = IF firstTarget[tm.id] = NoTargetMaker
                      THEN [firstTarget EXCEPT ![tm.id] = tm]
                      ELSE firstTarget
    /\ UNCHANGED <<matchMakers, trRest, trRev, firstMatch, marshalVars, kernfsVars>>

\* marshalMatcher (lines 62-68), for a matcher whose Name() is n.
marshalMatcher(n) ==
    /\ NoCallRunning
    /\ nfOp' = "marshalMatcher"
    /\ nfKey' = MatchKey(n)
    /\ nfRet' = IF matchMakers[n] = NoMatchMaker
                THEN Ret("panic", 0)
                ELSE Ret("ok", matchMakers[n].impl)
    /\ UNCHANGED <<matchMakers, targetMakers, trRest, trRev, firstMatch, firstTarget,
                   marshalVars, kernfsVars>>

\* unmarshalMatcher (lines 93-99), for a match whose Name.String() is n.
unmarshalMatcher(n) ==
    /\ NoCallRunning
    /\ nfOp' = "unmarshalMatcher"
    /\ nfKey' = MatchKey(n)
    /\ nfRet' = IF matchMakers[n] = NoMatchMaker
                THEN Ret("err", 0)
                ELSE Ret("ok", matchMakers[n].impl)
    /\ UNCHANGED <<matchMakers, targetMakers, trRest, trRev, firstMatch, firstTarget,
                   marshalVars, kernfsVars>>

\* targetRevision (lines 118-126): the lookup of the exact id; the range loop
\* starts if it is registered.
targetRevision_Call(tid) ==
    /\ NoCallRunning
    /\ nfOp' = "targetRevision"
    /\ nfKey' = tid
    /\ IF targetMakers[tid] = NoTargetMaker
       THEN /\ nfRet' = RevRet(0, FALSE)
            /\ trRest' = {}
            /\ trRev' = 0
       ELSE /\ nfRet' = Ret("running", 0)
            /\ trRest' = {targetMakers[id] : id \in RegisteredTargets}
            /\ trRev' = tid.Revision
    /\ UNCHANGED <<matchMakers, targetMakers, firstMatch, firstTarget, marshalVars,
                   kernfsVars>>

\* Mutant of targetRevision_Loop: rev takes the revision of every maker of the
\* same name and protocol the loop meets.
targetRevision_Loop_NoCompare(other) ==
    /\ nfRet.kind = "running"
    /\ other \in trRest
    /\ LET otherID == other.id IN
        trRev' = IF /\ nfKey.Name = otherID.Name
                    /\ nfKey.NetworkProtocol = otherID.NetworkProtocol
                 THEN otherID.Revision % 256
                 ELSE trRev
    /\ trRest' = trRest \ {other}
    /\ UNCHANGED <<matchMakers, targetMakers, nfOp, nfKey, nfRet, firstMatch,
                   firstTarget, marshalVars, kernfsVars>>

\* One iteration of the range loop (lines 129-134), over the makers in the
\* order the map yields them, which is any order.
targetRevision_Loop(other) ==
    /\ nfRet.kind = "running"
    /\ other \in trRest
    /\ LET otherID == other.id IN
        trRev' = IF /\ nfKey.Name = otherID.Name
                    /\ nfKey.NetworkProtocol = otherID.NetworkProtocol
                    /\ otherID.Revision > trRev
                 THEN otherID.Revision % 256
                 ELSE trRev
    /\ trRest' = trRest \ {other}
    /\ UNCHANGED <<matchMakers, targetMakers, nfOp, nfKey, nfRet, firstMatch,
                   firstTarget, marshalVars, kernfsVars>>

\* return rev, true (line 135).
targetRevision_Return ==
    /\ nfRet.kind = "running"
    /\ trRest = {}
    /\ nfRet' = RevRet(trRev, TRUE)
    /\ UNCHANGED <<matchMakers, targetMakers, nfOp, nfKey, trRest, trRev, firstMatch,
                   firstTarget, marshalVars, kernfsVars>>

\* marshalTarget (lines 147-153), for a target whose ID() is tid.
marshalTarget(tid) ==
    /\ NoCallRunning
    /\ nfOp' = "marshalTarget"
    /\ nfKey' = tid
    /\ nfRet' = IF targetMakers[tid] = NoTargetMaker
                THEN Ret("panic", 0)
                ELSE Ret("ok", targetMakers[tid].impl)
    /\ UNCHANGED <<matchMakers, targetMakers, trRest, trRev, firstMatch, firstTarget,
                   marshalVars, kernfsVars>>

\* unmarshalTarget (lines 155-167), for a target whose name, protocol and
\* revision make up tid.
unmarshalTarget(tid) ==
    /\ NoCallRunning
    /\ nfOp' = "unmarshalTarget"
    /\ nfKey' = tid
    /\ nfRet' = IF targetMakers[tid] = NoTargetMaker
                THEN Ret("err", 0)
                ELSE Ret("ok", targetMakers[tid].impl)
    /\ UNCHANGED <<matchMakers, targetMakers, trRest, trRev, firstMatch, firstTarget,
                   marshalVars, kernfsVars>>

\* Registration of target makers and revision queries.
TargetRevisionNext ==
    \/ \E tm \in TargetMakerValues : registerTargetMaker(tm)
    \/ \E tid \in TargetIDs : targetRevision_Call(tid)
    \/ \E other \in TargetMakerValues : targetRevision_Loop(other)
    \/ targetRevision_Return

TargetRevisionSpec == Init /\ [][TargetRevisionNext]_vars

\* The target extensions of a build that has one revision of each target.
SingleRevisionMakers == {tm \in TargetMakerValues : tm.id.Revision = 0}

\* Registration of match and target makers and the (un)marshal dispatchers.
RegistryNext ==
    \/ \E mm \in MatchMakerValues : registerMatchMaker(mm)
    \/ \E tm \in SingleRevisionMakers : registerTargetMaker(tm)
    \/ \E n \in MatchNames : marshalMatcher(n)
    \/ \E n \in MatchNames : unmarshalMatcher(n)
    \/ \E tid \in TargetIDs : marshalTarget(tid)
    \/ \E tid \in TargetIDs : unmarshalTarget(tid)

RegistrySpec == Init /\ [][RegistryNext]_vars

\* ------------------------------------------------------------------ helpers

Allocated(d) == fsOf[d] # NULL

\* t holds Filesystem.mu for writing: its Lock() has returned.
HoldsWrite(t) == mu.w = t /\ pc[t] \in {"dr_dec", "dr_dirlock", "dr_remove", "dr_unlock"}

\* t is inside the destructor that Dentry.DecRef passes to DentryRefs.DecRef.
InDestructor(t) == pc[t] \in {"dr_dirlock", "dr_remove"}

\* The number of k in 1..Len(q) with q[k] = d.
Occurrences(q, d) == Cardinality({k \in DOMAIN q : q[k] = d})

\* ------------------------------------------------------------------ C1

\* C1: no destructor (the zero-transition body of Dentry.DecRef) is executing
\* while a thread holds Filesystem.mu for reading, and an entry's count reaches
\* zero, its destructor runs, its inode is released and a binding is removed
\* only in steps of a thread that holds Filesystem.mu for writing.
C1_DestroyStep ==
    \A d \in Dentries :
        (\/ (refs[d] > 0 /\ refs'[d] = 0)
         \/ destroys'[d] # destroys[d]
         \/ (inode[d] # NULL /\ inode'[d] = NULL)
         \/ \E n \in Names : children[d][n] # NULL /\ children'[d][n] = NULL)
        => /\ mu.r = {}
           /\ \E t \in Threads : HoldsWrite(t) /\ pc'[t] # pc[t]

C1_NoDestructorUnderRead ==
    \A t \in Threads : InDestructor(t) => mu.r = {} /\ HoldsWrite(t)

C1_DestroyOnlyUnderWriteLock ==
    [](C1_NoDestructorUnderRead) /\ [][C1_DestroyStep]_vars

\* C1 witness: a destructor is running for an entry whose count has reached
\* zero while the other thread waits to start a read critical section.
C1_Witness ==
    \E t \in Threads :
        /\ pc[t] = "dr_remove"
        /\ refs[cur[t]] = 0 /\ destroys[cur[t]] = 1
        /\ \E u \in Threads \ {t} : pc[u] = "idle"


\* ------------------------------------------------------------------ C2

\* DecRef calls on d that have started and have not yet decremented.
InFlight(d) == Cardinality({t \in Threads : cur[t] = d /\ pc[t] \in {"dr_lock", "dr_wait", "dr_dec"}})

C2_Count ==
    \A d \in Dentries : Allocated(d) =>
        /\ refs[d] >= 0
        /\ refs[d] = InitialRefs + incs[d] - (decs[d] - InFlight(d))
        /\ destroys[d] = IF refs[d] = 0 THEN 1 ELSE 0

C2_DestructorStep ==
    \A d \in Dentries :
        destroys'[d] # destroys[d] =>
            /\ destroys'[d] = destroys[d] + 1
            /\ refs[d] = 1 /\ refs'[d] = 0

\* C2: at all times the count of an entry is its initial count plus the
\* successful increments minus the decrements made (the DecRef calls started
\* less those that have not decremented yet), so after all calls complete it is
\* initial + increments - decrements; the destructor has run exactly once when
\* the count is zero and not at all while it is positive, and it runs in the
\* very step that takes the count from one to zero.
C2_CountAndDestructor ==
    [](C2_Count) /\ [][C2_DestructorStep]_vars

\* C2 witness: an entry took an increment besides its initial reference, all
\* the DecRef calls on it have completed, its count is zero and its destructor
\* has run once.
C2_Witness ==
    \E d \in Dentries :
        /\ Allocated(d) /\ incs[d] >= 1 /\ decs[d] = InitialRefs + incs[d]
        /\ InFlight(d) = 0 /\ refs[d] = 0 /\ destroys[d] = 1
        /\ \A t \in Threads : pc[t] = "idle"

\* ------------------------------------------------------------------ C3

\* The steps of thread t.
ThreadNext(t) ==
    \/ \E d \in Dentries : IncRef(t, d)
    \/ \E d \in Dentries : TryIncRef(t, d)
    \/ \E d \in Dentries : DecRef_Call(t, d)
    \/ DecRef_Lock(t)
    \/ DecRef_Locked(t)
    \/ DecRef_Dec(t)
    \/ DecRef_DirLock(t)
    \/ DecRef_Remove(t)
    \/ DecRef_Unlock(t)
    \/ RLock(t)
    \/ \E p \in Dentries, i \in Inodes : Lookup(t, p, i)
    \/ DentryInit(t)
    \/ \E n \in Names : InsertChild_Lock(t, n)
    \/ insertChildLocked(t)
    \/ \E d \in Dentries : DeferDecRef_Lock(t, d)
    \/ DeferDecRef_Append(t)
    \/ RUnlock(t)
    \/ ProcessDeferred_Lock(t)
    \/ ProcessDeferred_Drain(t)

\* The steps by which a thread that has started an operation goes on with it:
\* every step but the optional ones of a read critical section, which ends
\* with RUnlock.
Continue(t) ==
    \/ pc[t] \notin {"idle", "read"} /\ ThreadNext(t)
    \/ RUnlock(t)

\* The acquisitions of a sync.Mutex / sync.RWMutex, which hands the lock to
\* waiters in turn (starvation mode).
Acquire(t) ==
    \/ DecRef_Lock(t)
    \/ DecRef_Locked(t)
    \/ DecRef_DirLock(t)
    \/ \E n \in Names : InsertChild_Lock(t, n)
    \/ \E d \in Dentries : pc[t] = "drop" /\ DeferDecRef_Lock(t, d)
    \/ ProcessDeferred_Lock(t)

\* Fair scheduling: a thread that can continuously go on does, and a thread
\* waiting for a lock that is free again and again gets it.
FairSpec ==
    /\ Init /\ [][Next]_vars
    /\ \A t \in Threads : WF_vars(Continue(t)) /\ SF_vars(Acquire(t))

LocksHeldBy(t) ==
    \/ mu.w = t
    \/ t \in mu.r
    \/ droppedDentriesMu = t
    \/ \E d \in Dentries : dirMu[d] = t

C3_NoDeadlock ==
    /\ (\E t \in Threads : pc[t] # "idle")
           => \E t \in Threads : pc[t] # "idle" /\ ENABLED <<Continue(t)>>_vars
    /\ \A t \in Threads : pc[t] = "idle" => ~LocksHeldBy(t)

\* C3: with threads that run read critical sections (lookup, insertChild,
\* deferDecRef, then processDeferredDecRefs after the release) and threads that
\* call DecRef holding no lock, there is never a state in which operations are
\* under way and none of them can take a step, a thread that has completed its
\* operation holds no lock, and under fair scheduling every started operation
\* completes.
C3_NoDeadlockAndCompletion ==
    /\ [](C3_NoDeadlock)
    /\ \A t \in Threads : (pc[t] # "idle") ~> (pc[t] = "idle")

\* C3 witness: one thread waits in Lock() for the reader to leave while the
\* reader holds a directory's dirMu inside insertChild.
C3_Witness ==
    \E t, u \in Threads :
        /\ pc[t] = "dr_wait" /\ mu.w = t
        /\ pc[u] = "ic_locked" /\ u \in mu.r


\* ------------------------------------------------------------------ C4

\* The binding of e in its parent's child map: the entry its name is bound to
\* there, NULL if e has no parent.
Binding(e) == IF parent[e] = NULL THEN NULL ELSE children[parent[e]][name[e]]

\* e is in the deferred queue with a count of one and no flush is pending:
\* its last reference was dropped through deferDecRef by a thread that is
\* still in the read critical section in which it did so.
LastRefDeferred(e) ==
    /\ Occurrences(droppedDentries, e) = 1
    /\ refs[e] = 1
    /\ mu.r # {}
    /\ \A t \in Threads : pc[t] \notin {"flush", "pd_locked"}

\* C4 as stated: after the last reference of an entry has been dropped through
\* deferDecRef, its count, its inode link and its binding in the parent's
\* child map do not change for the rest of that read hold.
C4_AsStated ==
    [][\A e \in Dentries :
          (LastRefDeferred(e) /\ mu.r \subseteq mu'.r)
              => /\ refs'[e] = refs[e]
                 /\ inode'[e] = inode[e]
                 /\ children'[parent[e]][name[e]] = children[parent[e]][name[e]]]_vars

\* The steps of deferDecRef change nothing but the queue and its mutex.
C4_DeferStep ==
    \A t \in Threads :
        /\ (pc[t] # "dd_locked" /\ pc'[t] = "dd_locked")
              => UNCHANGED <<mu, droppedDentries, treeVars>>
        /\ (pc[t] = "dd_locked" /\ pc'[t] # "dd_locked")
              => /\ UNCHANGED <<mu, treeVars>>
                 /\ droppedDentries' = Append(droppedDentries, loc[t].child)

\* While some thread holds mu for reading no count is decremented, no inode
\* link is cleared and no binding is removed.
C4_ReadHoldStep ==
    mu.r # {} =>
        \A d \in Dentries :
            /\ refs'[d] >= refs[d]
            /\ inode[d] # NULL => inode'[d] = inode[d]
            /\ \A n \in Names : children[d][n] # NULL => children'[d][n] # NULL

\* A binding is removed only by a thread in the destructor of a DecRef, which
\* holds mu for writing while no thread holds it for reading.
C4_RemovalStep ==
    \A d \in Dentries, n \in Names :
        (children[d][n] # NULL /\ children'[d][n] = NULL)
            => \E t \in Threads :
                  /\ pc[t] = "dr_remove" /\ pc'[t] = "dr_unlock"
                  /\ mu.w = t /\ mu.r = {}
                  /\ parent[cur[t]] = d /\ name[cur[t]] = n /\ refs[cur[t]] = 0

\* C4 (amended): deferDecRef changes only the deferred queue; as long as any
\* thread holds Filesystem.mu for reading, no entry's count is decremented, no
\* inode link is cleared and no binding is removed from a child map (the count
\* may be raised and the name rebound by other threads); a binding is removed
\* only in the destructor of a DecRef that holds Filesystem.mu for writing,
\* after every read hold has been released.
C4_DeferralChangesOnlyQueue ==
    [][C4_DeferStep /\ C4_ReadHoldStep /\ C4_RemovalStep]_vars

\* C4 witness: a reader has dropped the last reference of a bound entry through
\* deferDecRef and is still inside its read critical section.
C4_Witness ==
    \E t \in Threads, e \in Dentries :
        /\ pc[t] = "read" /\ mu.r = {t}
        /\ LastRefDeferred(e)
        /\ Binding(e) = e /\ inode[e] # NULL

\* ------------------------------------------------------------------ C5

\* The references on d that are accounted for: those callers hold, the
\* creation reference of a lookup under way, the occurrences of d in the
\* deferred queue, in a deferDecRef about to append and in the deferred calls
\* of a flush, the DecRef calls that have not decremented yet, and one for each
\* child of d that is alive or whose destructor has not yet called
\* d.DecRef.
CreationRefs(d) == Cardinality({t \in Threads : pc[t] \in {"inited", "ic_locked", "drop"} /\ loc[t].child = d})
Appending(d) == Cardinality({t \in Threads : pc[t] = "dd_locked" /\ loc[t].child = d})
InTodo(d) == SumOver([t \in Threads |-> Occurrences(todo[t], d)], Threads)
ChildRefs(d) ==
    Cardinality({c \in Dentries :
        /\ parent[c] = d
        /\ \/ refs[c] > 0
           \/ \E t \in Threads : cur[t] = c /\ decRefParent[t]
                                 /\ pc[t] \in {"dr_dirlock", "dr_remove", "dr_unlock"}})
Accounted(d) ==
    owned[d] + CreationRefs(d) + Occurrences(droppedDentries, d) + Appending(d)
        + InTodo(d) + InFlight(d) + ChildRefs(d)

C5_Conservation ==
    /\ \A d \in Dentries : Allocated(d) => refs[d] = Accounted(d)
    /\ (\A t \in Threads : pc[t] = "idle")
           => droppedDentries = <<>> /\ \A t \in Threads : todo[t] = <<>>

\* The step of processDeferredDecRefs that releases the queue lock leaves the
\* queue empty and turns each occurrence that was in it into one DecRef call,
\* started or still to run.
C5_DrainStep ==
    \A t \in Threads :
        (pc[t] = "pd_locked" /\ pc'[t] # "pd_locked") =>
            /\ droppedDentries' = <<>>
            /\ droppedDentriesMu' = NULL
            /\ \A d \in Dentries :
                  Occurrences(droppedDentries, d)
                      = Occurrences(todo'[t], d)
                          + (IF pc'[t] = "dr_lock" /\ cur'[t] = d THEN 1 ELSE 0)

\* C5: every occurrence of an entry in the deferred queue stands for exactly
\* one reference and is turned into exactly one DecRef: at all times the count
\* of an entry is the number of references accounted for, queued occurrences
\* included, whatever the interleaving of appends and flushes; once all
\* operations have completed nothing is left queued; and a flush leaves the
\* queue empty when it releases the queue lock.
C5_QueuedDecrementedOnce ==
    [](C5_Conservation) /\ [][C5_DrainStep]_vars

\* C5 witness: a flush has taken two queued occurrences, started the DecRef of
\* one and kept the other to run, while the other thread waits to flush.
C5_Witness ==
    \E t, u \in Threads :
        /\ pc[t] = "dr_lock" /\ Len(todo[t]) = 1 /\ droppedDentries = <<>>
        /\ pc[u] = "flush"


\* ------------------------------------------------------------------ C6

\* The entries whose parent pointer is p and whose destructor has not run.
LiveChildren(p) == {c \in Dentries : Allocated(c) /\ parent[c] = p /\ destroys[c] = 0}

\* C6: the count of an entry is at least the number of its children that have
\* not been destroyed, and an entry that has been destroyed has no child that
\* is still alive.
C6_ParentOutlivesChildren ==
    \A p \in Dentries : Allocated(p) =>
        /\ refs[p] >= Cardinality(LiveChildren(p))
        /\ destroys[p] > 0 => LiveChildren(p) = {}

\* C6 witness: an entry on which no caller holds a reference any more is kept
\* alive by its two live children alone.
C6_Witness ==
    \E p \in Dentries :
        /\ Allocated(p) /\ owned[p] = 0 /\ InFlight(p) = 0
        /\ Cardinality(LiveChildren(p)) = 2 /\ refs[p] = 2

\* ------------------------------------------------------------------ C7

\* The references on inode i that are accounted for: one per entry linked to
\* it, and the one a Lookup returned that has not been handed to Init yet.
InodeHolders(i) ==
    Cardinality({d \in Dentries : inode[d] = i})
        + Cardinality({t \in Threads : pc[t] = "looked" /\ loc[t].ino = i})

C7_InodeLink ==
    /\ \A i \in Inodes : inodeRefs[i] = InodeHolders(i)
    /\ \A d \in Dentries : Allocated(d) =>
          /\ refs[d] > 0 => inode[d] # NULL
          /\ refs[d] = 0 => inode[d] = NULL /\ destroys[d] = 1

C7_InodeStep ==
    /\ \A t \in Threads : (pc[t] = "looked" /\ pc'[t] = "inited") =>
          /\ inodeRefs' = inodeRefs
          /\ inode'[loc'[t].child] = loc[t].ino
    /\ \A d \in Dentries : (inode[d] # NULL /\ inode'[d] # inode[d]) =>
          /\ inode'[d] = NULL
          /\ refs[d] = 1 /\ refs'[d] = 0
          /\ inodeRefs'[inode[d]] = inodeRefs[inode[d]] - 1
    /\ \A i \in Inodes : inodeRefs'[i] < inodeRefs[i] =>
          \E d \in Dentries : inode[d] = i /\ refs[d] = 1 /\ refs'[d] = 0

\* C7: Init links the entry to the inode without changing the inode's count;
\* an inode's count is the number of entries linked to it (plus the reference
\* of a lookup not yet handed to Init), so each entry accounts for exactly one
\* inode reference; that reference is released exactly in the step that takes
\* the entry's count to zero, and from then on the entry points to no inode.
C7_InodeReleasedOnceAtZero ==
    [](C7_InodeLink) /\ [][C7_InodeStep]_vars

\* C7 witness: a looked-up entry has been destroyed, its inode link is cleared
\* and the inode's count is back to zero.
C7_Witness ==
    \E k \in DOMAIN Fresh :
        /\ Allocated(Fresh[k]) /\ refs[Fresh[k]] = 0 /\ destroys[Fresh[k]] = 1
        /\ inode[Fresh[k]] = NULL /\ inodeRefs[LookupInodes[k]] = 0

\* ------------------------------------------------------------------ C8

\* C8: the step in which insertChild(parent, name, child) completes on a
\* directory binds name to child in parent's child map, sets child.parent and
\* child.name, raises parent's count by exactly one and leaves child's count
\* (and every other count) unchanged.
C8_InsertChildPost ==
    [][\A t \in Threads :
          (pc[t] = "ic_locked" /\ pc'[t] # "ic_locked" /\ isDir(loc[t].par)) =>
              LET p == loc[t].par
                  c == loc[t].child
                  n == loc[t].nm IN
                  /\ pc'[t] = "drop"
                  /\ children'[p][n] = c
                  /\ parent'[c] = p
                  /\ name'[c] = n
                  /\ refs'[p] = refs[p] + 1
                  /\ refs'[c] = refs[c]
                  /\ \A d \in Dentries \ {p} : refs'[d] = refs[d]
                  /\ dirMu'[p] = NULL]_vars

\* C8 witness: insertChild has returned after binding a name that was bound to
\* another, still alive, entry of the same directory.
C8_Witness ==
    \E t \in Threads :
        /\ pc[t] = "drop"
        /\ children[loc[t].par][loc[t].nm] = loc[t].child
        /\ parent[loc[t].child] = loc[t].par
        /\ \E c \in Dentries \ {loc[t].child} :
              parent[c] = loc[t].par /\ name[c] = loc[t].nm /\ refs[c] > 0


\* ------------------------------------------------------------------ C9

\* Nothing is pending on e from the operation that created it: its creation
\* reference has been deferred, flushed and decremented.
CreationRefFlushed(e) ==
    /\ Allocated(e) /\ parent[e] # NULL
    /\ decs[e] >= 1
    /\ CreationRefs(e) + Occurrences(droppedDentries, e) + Appending(e)
           + InTodo(e) + InFlight(e) = 0
    /\ \A t \in Threads : ~(cur[t] = e /\ InDestructor(t))

\* No other reference was taken: after the flush the entry is destroyed and
\* its name is not bound to it.
C9_Unreferenced ==
    \A e \in Dentries :
        (CreationRefFlushed(e) /\ incs[e] = 0)
            => refs[e] = 0 /\ destroys[e] = 1 /\ Binding(e) # e

\* Another reference was taken: an entry that is bound and alive after the
\* flush stays bound, unless an insertChild binds its name to another entry or
\* its own count has reached zero.
C9_ReferencedStep ==
    \A e \in Dentries :
        (CreationRefFlushed(e) /\ refs[e] > 0 /\ Binding(e) = e)
            => \/ children'[parent[e]][name[e]] = e
               \/ children'[parent[e]][name[e]] # NULL
               \/ refs'[e] = 0

\* C9 as stated: an entry wrapping a Keep()==false lookup result is, after the
\* flush of the operation that created it, destroyed and unbound if no other
\* reference was taken, and otherwise stays bound until it is explicitly
\* replaced or removed or its last reference is dropped.
C9_AsStated ==
    [](C9_Unreferenced) /\ [][C9_ReferencedStep]_vars

\* ------------------------------------------------------------------ C10

C10_TryIncRefStep ==
    \A t \in Threads, d \in Dentries :
        TryIncRef(t, d) =>
            /\ refs[d] > 0 <=> (refs'[d] = refs[d] + 1 /\ owned'[d] = owned[d] + 1)
            /\ refs[d] = 0 => (refs'[d] = 0 /\ owned'[d] = owned[d])

C10_NoRefAfterDestructor ==
    \A d \in Dentries :
        destroys[d] > 0 => refs[d] = 0 /\ owned[d] = 0

\* C10: a TryIncRef step raises the count by one and hands the caller a
\* reference if and only if the count is greater than zero when it takes
\* effect, and leaves a zero count at zero; so no caller ever holds a reference
\* on an entry whose destructor has started, and the count of such an entry
\* stays zero.
C10_TryIncRefNeverResurrects ==
    [](C10_NoRefAfterDestructor) /\ [][C10_TryIncRefStep]_vars

\* C10 witness: the destructor of an entry is running (its count is zero)
\* while the other thread is free to call TryIncRef on it.
C10_Witness ==
    \E t, u \in Threads :
        /\ pc[t] = "dr_remove" /\ refs[cur[t]] = 0
        /\ pc[u] = "idle" /\ ENABLED TryIncRef(u, cur[t])


\* ------------------------------------------------------------------ C11

\* t holds some entry's dirMu.
HoldsDirMu(t) == \E d \in Dentries : dirMu[d] = t

\* t is running a DecRef call (the destructor included).
InDecRef(t) == pc[t] \in {"dr_lock", "dr_wait", "dr_dec", "dr_dirlock", "dr_remove", "dr_unlock"}

\* The step acquires Filesystem.mu (for reading or writing) for t.
AcquiresMu(t) ==
    \/ t \notin mu.r /\ t \in mu'.r
    \/ mu.w # t /\ mu'.w = t

C11_AcquireStep ==
    \A t \in Threads :
        /\ AcquiresMu(t) => ~HoldsDirMu(t) /\ droppedDentriesMu # t
        /\ (\E d \in Dentries : dirMu[d] # t /\ dirMu'[d] = t)
              => droppedDentriesMu # t

C11_QueueLockInnermost ==
    \A t \in Threads :
        droppedDentriesMu = t =>
            /\ pc[t] \in {"dd_locked", "pd_locked"}
            /\ ~InDecRef(t)

\* C11: locks are acquired in the order Filesystem.mu, Dentry.dirMu,
\* Filesystem.droppedDentriesMu: a thread that acquires mu holds neither a
\* dirMu nor droppedDentriesMu, a thread that acquires a dirMu does not hold
\* droppedDentriesMu, and droppedDentriesMu is held only between
\* the lock and the unlock of a queue append or a queue drain, never by a
\* thread that runs a DecRef or a destructor.
C11_LockOrder ==
    [](C11_QueueLockInnermost) /\ [][C11_AcquireStep]_vars

\* C11 witness: a thread holds droppedDentriesMu for a drain while the other
\* thread, holding mu for writing, holds a dirMu inside a destructor.
C11_Witness ==
    \E t, u \in Threads :
        /\ pc[t] = "pd_locked" /\ droppedDentriesMu = t /\ droppedDentries # <<>>
        /\ pc[u] = "dr_remove" /\ mu.w = u /\ HoldsDirMu(u)


\* ------------------------------------------------------------------ C12

\* C12 as stated: while some thread holds mu for reading, an entry that was
\* bound before the hold began (the operation that created it has completed)
\* stays undestroyed and stays bound under its name.
C12_AsStated ==
    [][\A e \in Dentries :
          (mu.r # {} /\ CreationRefFlushed(e) /\ Binding(e) = e)
              => /\ refs'[e] > 0 /\ destroys'[e] = 0
                 /\ children'[parent[e]][name[e]] = e]_vars

\* While some thread holds mu for reading every bound entry is alive.
C12_BoundAlive ==
    mu.r # {} =>
        \A p \in Dentries, n \in Names :
            children[p][n] # NULL =>
                LET e == children[p][n] IN
                    refs[e] > 0 /\ destroys[e] = 0 /\ inode[e] # NULL

\* During a read hold a bound entry stays alive, keeps its parent pointer
\* and name, and its name stays bound: to it, or to the child of an
\* insertChild that completes in that step.
C12_ReadHoldStep ==
    mu.r # {} =>
        \A p \in Dentries, n \in Names :
            children[p][n] # NULL =>
                LET e == children[p][n] IN
                    /\ refs'[e] > 0 /\ destroys'[e] = destroys[e]
                    /\ parent'[e] = parent[e] /\ name'[e] = name[e]
                    /\ \/ children'[p][n] = e
                       \/ \E t \in Threads :
                             /\ pc[t] = "ic_locked" /\ pc'[t] = "drop"
                             /\ loc[t].par = p /\ loc[t].nm = n
                             /\ children'[p][n] = loc[t].child

\* C12 (amended): while a thread holds Filesystem.mu for reading, every entry
\* bound in a child map stays undestroyed (count above zero, inode linked) and
\* keeps its parent pointer and name, and the name it is bound under stays
\* bound; the binding changes only when an insertChild of the same name in the
\* same directory replaces it with the entry being inserted.
C12_BoundEntriesSurviveReadHold ==
    [](C12_BoundAlive) /\ [][C12_ReadHoldStep]_vars

\* C12 witness: during a read hold, an entry bound before the hold began is
\* alive but its name is now bound to another entry.
C12_Witness ==
    \E e \in Dentries :
        /\ mu.r # {} /\ CreationRefFlushed(e) /\ refs[e] > 0
        /\ Binding(e) # e /\ Binding(e) # NULL


\* ------------------------------------------------------------------ C13

\* Two entries were created by lookups of the same name in the same directory.
SameNameLookups(a, b) ==
    /\ a # b /\ Allocated(a) /\ Allocated(b)
    /\ parent[a] # NULL /\ parent[a] = parent[b] /\ name[a] = name[b]

\* Both operations and their flushes have completed, and callers took no
\* reference besides the ones the lookups created, nor dropped the root's.
LookupsCompleted ==
    /\ \A t \in Threads : pc[t] = "idle"
    /\ CallerIncs = 0 /\ owned[Root] = InitialRefs

\* C13: for two lookups of the same name in one directory, run concurrently
\* by readers that insert, defer the drop and flush: whenever the directory's
\* dirMu is free, the name is bound to at most one entry, and that entry was
\* inserted under this name in this directory; once both operations and their
\* flushes have completed, both entries are destroyed, the name is unbound (no
\* binding to a destroyed entry is left) and the directory's count is what it
\* was before the lookups.
C13_ConcurrentSameNameLookups ==
    /\ \A p \in Dentries, n \in Names :
          (dirMu[p] = NULL /\ children[p][n] # NULL)
              => parent[children[p][n]] = p /\ name[children[p][n]] = n
    /\ \A a, b \in Dentries :
          (SameNameLookups(a, b) /\ LookupsCompleted)
              => /\ destroys[a] = 1 /\ destroys[b] = 1
                 /\ children[parent[a]][name[a]] = NULL
                 /\ \A p \in Dentries, n \in Names :
                       children[p][n] # NULL => refs[children[p][n]] > 0
                 /\ refs[parent[a]] = InitialRefs

\* C13 witness: two lookups of the same name in the root have completed with
\* their flushes.
C13_Witness ==
    \E a, b \in Dentries :
        /\ SameNameLookups(a, b) /\ LookupsCompleted
        /\ parent[a] = Root /\ refs[a] = 0 /\ refs[b] = 0

\* The two lookups overlap: both readers have inserted their entry under the
\* same name and neither has ended its read hold.
C13_Overlap ==
    \E t, u \in Threads :
        /\ t # u /\ pc[t] = "drop" /\ pc[u] \in {"drop", "read"}
        /\ {t, u} \subseteq mu.r
        /\ SameNameLookups(loc[t].child, children[loc[t].par][loc[t].nm])


\* ------------------------------------------------------------------ C14

\* t is in the destructor of an entry whose name is not bound in its parent's
\* child map.
DestroysUnbound(t) ==
    /\ pc[t] = "dr_remove"
    /\ children[parent[cur[t]]][name[cur[t]]] = NULL

C14_Step ==
    \A t \in Threads :
        /\ (DestroysUnbound(t) /\ pc'[t] # pc[t]) =>
                 /\ pc'[t] = "dr_unlock"
                 /\ children' = children
                 /\ invalidated' = invalidated
                 /\ parent' = parent /\ name' = name
                 /\ UNCHANGED <<refs, inode, inodeRefs, destroys, decs, decRefParent>>
        /\ (pc[t] = "dr_unlock" /\ decRefParent[t] /\ pc'[t] # pc[t]) =>
              /\ cur'[t] = parent[cur[t]] /\ pc'[t] = "dr_lock"
              /\ decs'[parent[cur[t]]] = decs[parent[cur[t]]] + 1
              /\ \A d \in Dentries \ {parent[cur[t]]} : decs'[d] = decs[d]

C14_Released ==
    \A t \in Threads :
        DestroysUnbound(t) =>
            /\ inode[cur[t]] = NULL /\ destroys[cur[t]] = 1 /\ refs[cur[t]] = 0
            /\ decRefParent[t]

\* C14: the destructor of an entry whose name is not bound in its parent's
\* child map raises no fault and goes on to the unlock, leaves every child map
\* unchanged and makes no InvalidateDentry call; the entry's inode reference
\* has been released once by then, and the one DecRef of the parent follows
\* when the destroying thread has unlocked.
C14_DestroyUnboundIsNoOp ==
    [](C14_Released) /\ [][C14_Step]_vars

\* C14 witness: an entry has been destroyed without being invalidated, because
\* its name was not bound, and its destroyer is about to DecRef the parent.
C14_Witness ==
    \E t \in Threads :
        /\ pc[t] = "dr_unlock" /\ decRefParent[t]
        /\ destroys[cur[t]] = 1 /\ cur[t] \notin invalidated
        /\ children[parent[cur[t]]][name[cur[t]]] = NULL


\* ------------------------------------------------------------------ C15

\* The numbers produced so far and the number of atomic adds made.
InoIssued == inoDone \cup {inoRet[t] : t \in {u \in Threads : inoPc[u] = "ret"}}
InoAdds == inoCalls - Cardinality({t \in Threads : inoPc[t] = "add"})

\* C15: as long as the counter has not wrapped around, the numbers issued by
\* concurrent NextIno calls are pairwise distinct, a call's number is greater
\* than every number returned before the call started, 0 is not issued, and on
\* a new Filesystem the numbers issued are 1, 2, ... without gaps, the first
\* being 1.
C15_NextIno ==
    ~inoWrapped =>
        /\ Cardinality(InoIssued) = InoAdds
        /\ \A t \in Threads : inoPc[t] = "ret" => inoRet[t] > inoSeen[t]
        /\ 0 \notin InoIssued
        /\ inoStart = 0 => InoIssued = 1..InoAdds

\* C15 witness: on a new Filesystem two calls overlap, one has got its number
\* and the other has not made its add yet, after an earlier call completed.
C15_Witness ==
    \E t, u \in Threads :
        /\ inoStart = 0 /\ inoDone # {}
        /\ inoPc[t] = "ret" /\ inoPc[u] = "add"
        /\ inoRet[t] > 1


\* ------------------------------------------------------------------ C16

C16_Step ==
    \A t \in Threads :
        /\ (pc[t] = "inited" /\ pc'[t] = "ic_locked" /\ ~isDir(loc'[t].par))
              => UNCHANGED <<refs, children, parent, name>>
        /\ (pc[t] = "ic_locked" /\ ~isDir(loc[t].par) /\ pc'[t] # pc[t])
              => /\ pc'[t] = "panic"
                 /\ UNCHANGED <<refs, children, parent, name>>
        /\ pc[t] = "panic" => pc'[t] = "panic"

C16_Panicked ==
    \A t \in Threads :
        pc[t] = "panic" =>
            /\ ~isDir(loc[t].par)
            /\ parent[loc[t].child] = NULL /\ name[loc[t].child] = NULL
            /\ \A n \in Names : children[loc[t].par][n] = NULL

\* C16: insertChild on an entry that is not a directory panics in
\* insertChildLocked and the call never returns; neither of its steps changes
\* a reference count, a child map, a parent pointer or a name, so the target's
\* count and child map and the child's parent pointer and name are as before
\* the call.
C16_InsertOnNonDirPanics ==
    [](C16_Panicked) /\ [][C16_Step]_vars

\* C16 witness: a thread has panicked in insertChildLocked on the regular
\* file's entry.
C16_Witness ==
    \E t \in Threads :
        /\ pc[t] = "panic" /\ loc[t].par = FileEntry
        /\ refs[FileEntry] = InitialRefs /\ dirMu[FileEntry] = t


\* ------------------------------------------------------------------ C17

\* t runs a DecRef while it holds mu for reading.
DecRefUnderOwnReadHold(t) == t \in mu.r /\ InDecRef(t)

\* t waits in Lock() for the readers to leave, being a reader itself.
WaitsForItself(t) == pc[t] = "dr_wait" /\ mu.w = t /\ t \in mu.r

C17_Stuck ==
    \A t \in Threads :
        /\ DecRefUnderOwnReadHold(t) => pc[t] \in {"dr_lock", "dr_wait"}
        /\ WaitsForItself(t) =>
              /\ ~ENABLED ThreadNext(t)
              /\ \A u \in Threads :
                    ~ENABLED RLock(u) /\ ~ENABLED DecRef_Lock(u) /\ ~ENABLED DecRef_Locked(u)

C17_StuckStep ==
    \A t \in Threads :
        /\ DecRefUnderOwnReadHold(t) => (t \in mu'.r /\ pc'[t] \in {"dr_lock", "dr_wait"})
        /\ WaitsForItself(t) => (pc'[t] = "dr_wait" /\ mu'.w = t /\ t \in mu'.r)

\* C17: a thread that calls Dentry.DecRef while it holds Filesystem.mu for
\* reading never gets past fs.mu.Lock(): its call never decrements and never
\* returns, and its read hold is never released; once it waits for the write
\* lock it has no step left, it stays in that state for ever, and no other
\* thread can acquire Filesystem.mu any more, for reading or for writing.
C17_ReaderDecRefDeadlocks ==
    [](C17_Stuck) /\ [][C17_StuckStep]_vars

\* C17 witness: a reader that called DecRef waits for the write lock while
\* holding the read lock.
C17_Witness ==
    \E t \in Threads : WaitsForItself(t) /\ cur[t] # NULL /\ refs[cur[t]] > 0

\* ------------------------------------------------------------------ C18

\* C18: when the destructor of an entry d modifies its parent's child map or
\* invalidates a dentry (lines 404-410), the binding it removes is a binding
\* of d's name to d itself; a binding of that name to another entry, which
\* displaced d, is left in place.
C18_RemovesOnlyOwnBinding ==
    [][\A t \in Threads :
          (pc[t] = "dr_remove" /\ pc'[t] # pc[t]) =>
              LET d == cur[t]
                  p == parent[d] IN
                  /\ (children' # children \/ invalidated' # invalidated)
                        => children[p][name[d]] = d
                  /\ \A q \in Dentries, n \in Names :
                        (children[q][n] # NULL /\ children[q][n] # d)
                            => children'[q][n] = children[q][n]]_vars

\* ------------------------------------------------------------------ C19

\* t has destroyed cur[t], which has a parent, and has not yet called the
\* parent's DecRef.
OwesParentDecRef(t) ==
    /\ pc[t] \in {"dr_dirlock", "dr_remove", "dr_unlock"}
    /\ refs[cur[t]] = 0
    /\ parent[cur[t]] # NULL

C19_Owed ==
    /\ \A t \in Threads : decRefParent[t] <=> OwesParentDecRef(t)
    /\ \A d \in Dentries : Allocated(d) => refs[d] = Accounted(d)

C19_Step ==
    \A t \in Threads :
        LET d == cur[t] IN
        \* the decrement of line 397, reaching zero or not
        /\ (pc[t] = "dr_dec" /\ pc'[t] # pc[t]) =>
              /\ decRefParent'[t] = (refs'[d] = 0 /\ parent[d] # NULL)
              /\ decs' = decs
              /\ cur'[t] = d
        \* the destructor of an entry without a parent
        /\ (InDecRef(t) /\ parent[d] = NULL /\ pc'[t] # pc[t]) =>
              /\ children' = children
              /\ dirMu' = dirMu
        \* the end of a call that owes the parent a decrement
        /\ (pc[t] = "dr_unlock" /\ decRefParent[t] /\ pc'[t] # pc[t]) =>
              /\ mu.w = t /\ mu'.w = NULL
              /\ \A q \in Dentries : dirMu[q] # t /\ dirMu'[q] # t
              /\ pc'[t] = "dr_lock" /\ cur'[t] = parent[d]
              /\ ~decRefParent'[t]
              /\ decs' = [decs EXCEPT ![parent[d]] = @ + 1]
        \* the end of a call that owes nothing
        /\ (pc[t] = "dr_unlock" /\ ~decRefParent[t] /\ pc'[t] # pc[t]) =>
              /\ ~decRefParent'[t]
              /\ IF todo[t] = <<>>
                 THEN decs' = decs /\ pc'[t] = "idle"
                 ELSE /\ decs' = [decs EXCEPT ![Head(todo[t])] = @ + 1]
                      /\ todo'[t] = Tail(todo[t])
        \* the debt is paid by no other step
        /\ (decRefParent[t] /\ pc[t] # "dr_unlock") =>
              /\ decRefParent'[t] /\ cur'[t] = d
              /\ pc'[t] # pc[t] => decs' = decs

\* C19: the thread that destroys an entry with a parent owes that parent one
\* decrement from the step that takes the count to zero until it calls the
\* parent's DecRef, which it does once, in the step that ends its call, after
\* it has released the parent's dirMu and as it releases mu; the parent's
\* count keeps one reference for the child until then.  A DecRef on an entry
\* without a parent changes no child map and no dirMu and owes nothing, and
\* neither does a DecRef that does not reach zero.
C19_ParentDecrementedOnceAfterUnlock ==
    [](C19_Owed) /\ [][C19_Step]_vars

\* C19 witness: a thread that destroyed a child of the root has released mu
\* and dirMu and is in the root's DecRef, the only DecRef the root ever had;
\* no thread owes a parent decrement any more.
C19_Witness ==
    \E t \in Threads, c \in Dentries :
        /\ parent[c] = Root /\ refs[c] = 0 /\ destroys[c] = 1
        /\ pc[t] = "dr_lock" /\ cur[t] = Root /\ mu.w # t
        /\ decs[Root] = 1
        /\ \A u \in Threads : ~decRefParent[u]
        /\ \A q \in Dentries : dirMu[q] # t

\* C19 witness of the other cases: the root has been destroyed, by a DecRef
\* that followed one that did not reach zero.
C19_RootDestroyed ==
    /\ refs[Root] = 0 /\ destroys[Root] = 1 /\ decs[Root] = 2
    /\ \A t \in Threads : pc[t] = "idle"

\* ------------------------------------------------------------------ C20

\* The chain root, e1, e2 built by insertChild.
ChainOrder == <<Root>> \o Fresh
Chain ==
    /\ \A d \in Dentries : Allocated(d)
    /\ parent[Root] = NULL
    /\ \A k \in 2..Len(ChainOrder) :
          /\ parent[ChainOrder[k]] = ChainOrder[k - 1]
          /\ \/ refs[ChainOrder[k]] = 0
             \/ children[ChainOrder[k - 1]][name[ChainOrder[k]]] = ChainOrder[k]

\* Every entry of the chain has one reference, each ancestor's held by its
\* child, and thread t has started the DecRef of the reference on the last
\* entry.
ChainDropping(t) ==
    /\ Chain
    /\ \A d \in Dentries : refs[d] = 1
    /\ cur[t] = ChainOrder[Len(ChainOrder)]
    /\ pc[t] \in {"dr_lock", "dr_wait", "dr_dec"}

\* A caller holds a reference of its own on an entry.
CallerHolds == \E d \in Dentries : owned[d] > 0

ChainGone ==
    /\ \A d \in Dentries : refs[d] = 0 /\ destroys[d] = 1 /\ inode[d] = NULL
    /\ \A i \in Inodes : inodeRefs[i] = 0
    /\ \A d \in Dentries, n \in Names : children[d][n] = NULL

C20_Cascade ==
    \* each entry is destroyed at most once, a child before its parent
    /\ \A d \in Dentries :
          /\ destroys[d] <= 1
          /\ (parent[d] # NULL /\ refs[parent[d]] = 0) => refs[d] = 0
    \* when the last reference is dropped no caller holds a reference
    /\ \A t \in Threads : ChainDropping(t) => ~CallerHolds
    \* no binding of a destroyed entry outlives its destructor
    /\ \A d \in Dentries, n \in Names :
          (children[d][n] # NULL /\ refs[children[d][n]] = 0)
              => \E t \in Threads : cur[t] = children[d][n]
                                     /\ pc[t] \in {"dr_dirlock", "dr_remove"}
    \* once the calls have returned, with no caller's reference left, the
    \* whole chain is destroyed
    /\ (Chain /\ ~CallerHolds /\ \A t \in Threads : pc[t] = "idle") => ChainGone

\* C20: in the chain root, e1, e2 in which every entry has one reference (an
\* ancestor's being its child's), the DecRef of the last reference on e2
\* leads, under fair scheduling and unless a caller takes a reference on an
\* entry meanwhile, to a state where the calling thread has returned and every
\* entry has been destroyed exactly once, every inode reference released and
\* every child map emptied; no entry is ever destroyed twice or after its
\* parent, and no child map keeps a binding to a destroyed entry.
C20_ChainCascade ==
    /\ [](C20_Cascade)
    /\ \A t \in Threads :
          ChainDropping(t) ~> ((ChainGone /\ pc[t] = "idle") \/ CallerHolds)

\* C20 witness: thread t, which started the DecRef of the last reference on e2
\* when every entry of the chain had one reference, is in e2's destructor and
\* owes e1 the decrement that continues the cascade.
C20_Witness ==
    \E t \in Threads :
        /\ Chain /\ ~CallerHolds
        /\ cur[t] = ChainOrder[Len(ChainOrder)] /\ pc[t] = "dr_remove"
        /\ decRefParent[t]
        /\ \A k \in 1..(Len(ChainOrder) - 1) : refs[ChainOrder[k]] = 1

\* ------------------------------------------------------------------ C21

\* The bindings name -> c of the child maps of entries whose dirMu is free.
UnlockedBindings ==
    {b \in Dentries \X Names : dirMu[b[1]] = NULL /\ children[b[1]][b[2]] # NULL}

\* A thread holding mu for writing has taken c's count to zero and is about to
\* lock the parent's dirMu to remove c's binding (between lines 397 and 403).
BeingUnbound(c) ==
    \E t \in Threads : mu.w = t /\ cur[t] = c /\ pc[t] = "dr_dirlock"

\* As stated: every binding of an unlocked child map names a child whose
\* parent and name are those of the binding and whose count is positive.
C21_AsStated ==
    \A b \in UnlockedBindings :
        LET c == children[b[1]][b[2]] IN
            parent[c] = b[1] /\ name[c] = b[2] /\ refs[c] > 0

\* C21: in every reachable state in which p's dirMu is not held, each binding
\* name -> c of p's child map has c.parent = p and c.name = name, and c's
\* count is positive unless the thread that has just taken it to zero, still
\* holding mu for writing, has not yet locked p's dirMu to remove the binding.
C21_ChildMapInvariant ==
    \A b \in UnlockedBindings :
        LET c == children[b[1]][b[2]] IN
            /\ parent[c] = b[1] /\ name[c] = b[2]
            /\ refs[c] > 0 \/ BeingUnbound(c)

\* C21 witness: a directory whose dirMu is free has one binding to a live
\* child and another to a child whose count has just reached zero and whose
\* destructor has not yet locked the directory.
C21_Witness ==
    \E p \in Dentries, n, m \in Names :
        /\ dirMu[p] = NULL /\ n # m
        /\ children[p][n] # NULL /\ refs[children[p][n]] > 0
        /\ children[p][m] # NULL /\ refs[children[p][m]] = 0
        /\ BeingUnbound(children[p][m])

\* ------------------------------------------------------------------ C22

\* XTEntryMatch header of a marshalled match of the given name and data.
EntryMatchHeader(nm, data) ==
    MarshalXTEntryMatch([MatchSize |-> Uint16(AlignUp(SizeOfXTEntryMatch + Len(data), 8)),
                         Name |-> Copy(Zeros(ExtensionNameLen), nm),
                         Revision |-> 0])

\* C22: for every name and data, the buffer marshalEntryMatch returns has the
\* length SizeOfXTEntryMatch + len(data) rounded up to a multiple of 8, which
\* is the MatchSize it encodes, and is the marshalled header, then data, then
\* zero padding.
C22_EntryMatchLayout ==
    nfOp = "marshalEntryMatch" =>
        LET size == AlignUp(SizeOfXTEntryMatch + Len(mData), 8) IN
            /\ Len(mBuf) = size
            /\ Len(mBuf) >= 2 /\ mBuf[1] + 256 * mBuf[2] = size
            /\ mBuf = EntryMatchHeader(mName, mData) \o mData
                        \o Zeros(size - SizeOfXTEntryMatch - Len(mData))

\* ------------------------------------------------------------------ C23

\* The registered ids with the name and network protocol of the query.
SameTarget == {id \in RegisteredTargets :
                 /\ id.Name = nfKey.Name
                 /\ id.NetworkProtocol = nfKey.NetworkProtocol}

\* C23: when targetRevision(name, netProto, rev) has returned, it has returned
\* (0, false) if no target maker is registered under exactly (name, netProto,
\* rev), and otherwise (r, true) with r the greatest revision among the
\* registered makers of that name and network protocol, which is at least
\* rev, whatever the order in which the loop visited the registry.
C23_TargetRevision ==
    (nfOp = "targetRevision" /\ nfRet.kind = "rev") =>
        IF nfKey \notin RegisteredTargets
        THEN nfRet.rev = 0 /\ ~nfRet.ok
        ELSE /\ nfRet.ok
             /\ nfRet.rev = MaxOf({id.Revision : id \in SameTarget})
             /\ nfRet.rev >= nfKey.Revision

\* C23 witness: a query returned a revision greater than the one asked for,
\* with a maker of another name registered at a still greater revision.
C23_Witness ==
    /\ nfOp = "targetRevision" /\ nfRet.kind = "rev" /\ nfRet.ok
    /\ nfRet.rev > nfKey.Revision
    /\ \E id \in RegisteredTargets : id.Name # nfKey.Name /\ id.Revision > nfRet.rev

\* C23, the other return: a query for an id that is not registered returned
\* (0, false) although a maker of the same name and protocol is registered.
C23_NotRegistered ==
    /\ nfOp = "targetRevision" /\ nfRet.kind = "rev" /\ ~nfRet.ok
    /\ SameTarget # {}

\* ------------------------------------------------------------------ C24

\* The registry maps each key to the first maker registered under it.
C24_FirstMakerKept ==
    /\ matchMakers = firstMatch
    /\ targetMakers = firstTarget
    /\ nfRet.kind = "panic" =>
          \/ nfOp = "registerMatchMaker" /\ nfKey.Name \in RegisteredMatches
                /\ nfRet.maker # 0
          \/ nfOp = "registerTargetMaker" /\ nfKey \in RegisteredTargets
                /\ nfRet.maker # 0
          \/ nfOp = "marshalMatcher" /\ nfKey.Name \notin RegisteredMatches
          \/ nfOp = "marshalTarget" /\ nfKey \notin RegisteredTargets

\* A call has just been made: the record of the last call changes.
Called(op) == nfOp' = op /\ <<nfOp, nfKey, nfRet>>' # <<nfOp, nfKey, nfRet>>

C24_Step ==
    /\ Called("registerMatchMaker") =>
          IF nfKey'.Name \in RegisteredMatches
          THEN nfRet'.kind = "panic" /\ UNCHANGED <<matchMakers, targetMakers>>
          ELSE /\ nfRet'.kind = "ok"
               /\ matchMakers'[nfKey'.Name] = [name |-> nfKey'.Name, impl |-> nfRet'.maker]
               /\ \A n \in MatchNames \ {nfKey'.Name} : matchMakers'[n] = matchMakers[n]
               /\ UNCHANGED targetMakers
    /\ Called("registerTargetMaker") =>
          IF nfKey' \in RegisteredTargets
          THEN nfRet'.kind = "panic" /\ UNCHANGED <<matchMakers, targetMakers>>
          ELSE /\ nfRet'.kind = "ok"
               /\ targetMakers'[nfKey'] = [id |-> nfKey', impl |-> nfRet'.maker]
               /\ \A id \in TargetIDs \ {nfKey'} : targetMakers'[id] = targetMakers[id]
               /\ UNCHANGED matchMakers
    /\ Called("unmarshalMatcher") =>
          /\ UNCHANGED <<matchMakers, targetMakers>>
          /\ nfKey'.Name \notin RegisteredMatches <=> nfRet'.kind = "err"
          /\ nfKey'.Name \in RegisteredMatches =>
                nfRet' = Ret("ok", firstMatch[nfKey'.Name].impl)
    /\ Called("unmarshalTarget") =>
          /\ UNCHANGED <<matchMakers, targetMakers>>
          /\ nfKey' \notin RegisteredTargets <=> nfRet'.kind = "err"
          /\ nfKey' \in RegisteredTargets =>
                nfRet' = Ret("ok", firstTarget[nfKey'].impl)

\* C24: registerMatchMaker under a registered name and registerTargetMaker
\* under a registered TargetID panic and leave both maps unchanged, and a
\* registration under a free key adds that maker and nothing else; so at all
\* times each key maps to the first maker registered under it.  unmarshalMatcher
\* and unmarshalTarget return an error value exactly when the key is not
\* registered, dispatch to the first maker registered otherwise, and never
\* change the maps.
C24_DuplicateRegistrationPanics ==
    [](C24_FirstMakerKept) /\ [][C24_Step]_vars

\* C24 witness: a second maker was registered under a TargetID that was taken;
\* the call panicked and the map still holds the first one.
C24_Witness ==
    /\ nfOp = "registerTargetMaker" /\ nfRet.kind = "panic"
    /\ targetMakers[nfKey] # NoTargetMaker
    /\ targetMakers[nfKey].impl # nfRet.maker
    /\ matchMakers # [n \in MatchNames |-> NoMatchMaker]

\* C24, the match side: a second maker registered under a taken name panicked.
C24_MatchPanicked ==
    /\ nfOp = "registerMatchMaker" /\ nfRet.kind = "panic"
    /\ matchMakers[nfKey.Name].impl # nfRet.maker

\* C24, the error return: unmarshalTarget on an id that is not registered
\* returned an error while other targets are registered.
C24_Unsupported ==
    /\ nfOp = "unmarshalTarget" /\ nfRet.kind = "err"
    /\ RegisteredTargets # {}

====
